---- MODULE Spec2Model ----
(***************************************************************************)
(* Model of the dependency graph resolver, the guarded merge engine        *)
(* (src/python/utils/dependency.py) and the stage orchestrator             *)
(* (src/python/pipeline.py).                                               *)
(*                                                                         *)
(* Paths are sequences of path components relative to the project root;   *)
(* a text is a sequence of lines; a line is a record [k, n, p] with k the  *)
(* kind of the line, n a symbol or token and p a path.                     *)
(***************************************************************************)
EXTENDS Integers, Sequences, FiniteSets, TLC

VARIABLES
    fsText,       \* file system: existing file path -> text of the file
    unreadable,   \* existing files whose read_text raises IOError
    nodes,        \* DependencyGraph.nodes: relative path -> DependencyNode
    rootArg,      \* the root_file argument of resolve_dependencies
    rootKey,      \* root_node.filepath
    internal,     \* resolve_dependencies: the list internal
    external,     \* resolve_dependencies: the list external
    visited,      \* resolve_dependencies: the set visited
    stack,        \* call stack of traverse: frames [key, idx]
    rpc,          \* position of resolve_dependencies
    merged,       \* text returned by get_merged_content
    mpc,          \* position of the merge call on the graph
    ppc,                  \* position of run_pipeline
    source_code,          \* run_pipeline: the argument source_code
    file_path,            \* run_pipeline: the argument file_path
    inline_dependencies,  \* config.verification.inline_dependencies
    has_callback,         \* a progress_callback was given
    current_stage,        \* progress.current_stage
    stages_completed,     \* progress.stages_completed
    errors,               \* progress.errors
    notified,             \* the calls the progress_callback received
    success,              \* result.success
    merged_code,          \* result.merged_code
    annotated_code,       \* result.annotated_code
    verification_result,  \* result.verification_result
    temp_files,           \* result.temp_files
    internal_files,       \* run_pipeline: the local internal_files
    calls,                \* the calls made to annotate_code and verify_code
    warnings,             \* progress.warnings
    other_run,            \* the locals of a second, suspended run_pipeline call
    cls,                  \* classify_dependencies: its argument and its result
    merged_again,         \* text returned by a second get_merged_content call
    add_result,           \* the last add_file call a caller made: argument, node returned
    ext,                  \* _extract_includes: its argument and its result
    cleanup               \* run_pipeline_with_progress: the setting and work of cleanup_temp_files

gvars == <<fsText, unreadable, nodes, rootArg, rootKey, internal, external,
           visited, stack, rpc, merged, mpc>>

pvars == <<ppc, source_code, file_path, inline_dependencies, has_callback,
           current_stage, stages_completed, errors, notified, success,
           merged_code, annotated_code, verification_result, temp_files,
           internal_files, calls, warnings>>

\* state outside the one run_pipeline call and its graph
avars == <<other_run, cls, merged_again, add_result, ext, cleanup>>

vars == <<gvars, pvars, avars>>

----------------------------------------------------------------------------
(* Bounds of the model *)

\* most include directives in the project's files taken together
MaxIncludes == 3
\* most components of a path the file system accepts (PATH_MAX, scaled);
\* a longer path makes Path.exists() raise OSError (ENAMETOOLONG)
MaxPathLen == 6

----------------------------------------------------------------------------
(* Lines *)

Line(k, n, p) == [k |-> k, n |-> n, p |-> p]
Sys(p)    == Line("sys", "", p)        \* #include <p>
Loc(p)    == Line("loc", "", p)        \* #include "p"
Ifndef(x) == Line("ifndef", x, <<>>)   \* #ifndef x
Ifdef(x)  == Line("ifdef", x, <<>>)    \* #ifdef x
Define(x) == Line("define", x, <<>>)   \* #define x
Endif     == Line("endif", "", <<>>)   \* #endif
Text(t)   == Line("text", t, <<>>)     \* any other line

IsIncludeLine(l) == l.k \in {"sys", "loc"}

----------------------------------------------------------------------------
(* The file system *)

MainC    == <<"main.c">>
UtilsH   == <<"utils.h">>
SrcB     == <<"src", "b.h">>
SrcUtilsH == <<"src", "utils.h">>   \* a second utils.h, next to src/b.h
Dirs     == {<<>>, <<"src">>, <<"include">>}
AllFiles == {MainC, UtilsH, SrcB}

NoPath    == <<"?none">>    \* None
RaisePath == <<"?raise">>   \* the call raised OSError

Front(s) == SubSeq(s, 1, Len(s) - 1)
Last(s)  == s[Len(s)]

\* The file or directory a path denotes, following ".." through real
\* directories; NoPath when a component is missing or is not a directory.
RECURSIVE Walk(_, _)
Walk(cur, rest) ==
    IF rest = <<>> THEN cur
    ELSE IF cur \notin Dirs THEN NoPath
    ELSE IF Head(rest) = ".."
         THEN IF cur = <<>> THEN NoPath ELSE Walk(Front(cur), Tail(rest))
    ELSE LET next == Append(cur, Head(rest)) IN
         IF next \in Dirs \cup DOMAIN fsText THEN Walk(next, Tail(rest)) ELSE NoPath

Normalize(p) == Walk(<<>>, p)

\* Path.exists() of project_root / p
PathExists(p) == Normalize(p) # NoPath

\* Path(from_file).parent
Parent(p) == IF p = <<>> THEN <<>> ELSE Front(p)

----------------------------------------------------------------------------
(* DependencyGraph: nodes, path resolution, include extraction *)

EmptyNodes == [k \in {} |-> 0]

\* A root_file / file_path argument: a path relative to the project root
\* ("rel"), the same path written absolute ("abs"), or an absolute path
\* that does not start with the project root ("outside"), or a relative
\* path that names no file under the project root but names a file under
\* the current directory, which lies outside the project ("cwd").
RelArg(p)  == [form |-> "rel", path |-> p]
AbsArg(p)  == [form |-> "abs", path |-> p]
OutsideArg == [form |-> "outside", path |-> <<"nonexistent", "file.c">>]
CwdArg     == [form |-> "cwd", path |-> <<"elsewhere", "file.c">>]

\* the resolved path of a file that is not below the project root
ElsewherePath == <<"?elsewhere">>

\* an extraction that takes an angle-bracket include for a local one when
\* a file of that name exists under the project root
RECURSIVE ExtractFromPreferProject(_, _)
ExtractFromPreferProject(content, i) ==
    IF i > Len(content) THEN <<>>
    ELSE (IF IsIncludeLine(content[i])
          THEN << [filename |-> content[i].p,
                   is_system |-> (content[i].k = "sys" /\ ~PathExists(content[i].p)),
                   line_number |-> i] >>
          ELSE <<>>) \o ExtractFromPreferProject(content, i + 1)

\* _extract_includes: one IncludeInfo per include line, in file order
RECURSIVE ExtractFrom(_, _)
ExtractFrom(content, i) ==
    IF i > Len(content) THEN <<>>
    ELSE (IF IsIncludeLine(content[i])
          THEN << [filename |-> content[i].p,
                   is_system |-> (content[i].k = "sys"),
                   line_number |-> i] >>
          ELSE <<>>) \o ExtractFrom(content, i + 1)

ExtractIncludes(content) == ExtractFrom(content, 1)

\* _resolve_path: the path below the project root, or NoPath for None
ResolvePath(arg) ==
    CASE arg.form = "outside" -> NoPath
      [] arg.form = "abs"     -> arg.path
      [] arg.form = "cwd"     -> ElsewherePath
      [] OTHER                -> IF PathExists(arg.path) THEN arg.path ELSE NoPath

\* read_text succeeds on an existing, readable regular file
Readable(p) == Normalize(p) \in DOMAIN fsText /\ Normalize(p) \notin unreadable

MakeNode(rel) ==
    [filepath |-> rel,
     content  |-> fsText[Normalize(rel)],
     includes |-> ExtractIncludes(fsText[Normalize(rel)])]

\* an add_file that reads the file again when its path is already a key
AddFileReread(nds, arg) ==
    LET abs_path == ResolvePath(arg) IN
    IF abs_path = NoPath
        THEN [nodes |-> nds, key |-> NoPath]
    ELSE IF abs_path = ElsewherePath
        THEN [nodes |-> nds, key |-> RaisePath]
    ELSE IF ~PathExists(abs_path)
        THEN [nodes |-> nds, key |-> NoPath]
    ELSE IF ~Readable(abs_path)
        THEN [nodes |-> nds, key |-> NoPath]
    ELSE [nodes |-> [k \in DOMAIN nds \cup {abs_path} |->
                        IF k = abs_path THEN MakeNode(abs_path) ELSE nds[k]],
          key |-> abs_path]

\* add_file: the graph's nodes afterwards and the key of the node returned
\* (NoPath for None; RaisePath when relative_to raises ValueError)
AddFile(nds, arg) ==
    LET abs_path == ResolvePath(arg) IN
    IF abs_path = NoPath
        THEN [nodes |-> nds, key |-> NoPath]
    ELSE IF abs_path = ElsewherePath
        THEN [nodes |-> nds, key |-> RaisePath]
    ELSE IF ~PathExists(abs_path)
        THEN [nodes |-> nds, key |-> NoPath]
    ELSE IF abs_path \in DOMAIN nds
        THEN [nodes |-> nds, key |-> abs_path]
    ELSE IF ~Readable(abs_path)
        THEN [nodes |-> nds, key |-> NoPath]
    ELSE [nodes |-> nds @@ (abs_path :> MakeNode(abs_path)), key |-> abs_path]

\* a search that looks under the project root before the including file's
\* directory
FindIncludeFileRootFirst(filename, from_file) ==
    LET c1 == Parent(from_file) \o filename
        c2 == filename
    IN  IF Len(c2) > MaxPathLen THEN RaisePath
        ELSE IF PathExists(c2) THEN c2
        ELSE IF Len(c1) > MaxPathLen THEN RaisePath
        ELSE IF PathExists(c1) THEN c1
        ELSE NoPath

\* a search that looks under the project root only
FindIncludeFileRootOnly(filename, from_file) ==
    IF Len(filename) > MaxPathLen THEN RaisePath
    ELSE IF PathExists(filename) THEN filename
    ELSE NoPath

\* _find_include_file: first the including file's directory, then the
\* project root; the path is returned as joined, without normalisation.
\* RaisePath when Path.exists() raises on a path the file system rejects.
FindIncludeFile(filename, from_file) ==
    LET c1 == Parent(from_file) \o filename
        c2 == filename
    IN  IF Len(c1) > MaxPathLen THEN RaisePath
        ELSE IF PathExists(c1) THEN c1
        ELSE IF Len(c2) > MaxPathLen THEN RaisePath
        ELSE IF PathExists(c2) THEN c2
        ELSE NoPath

Contains(s, x) == \E i \in 1..Len(s) : s[i] = x

\* list.append without the membership test
AppendAlways(s, x) == Append(s, x)

\* list.append guarded by "not in"
AppendNew(s, x) == IF Contains(s, x) THEN s ELSE Append(s, x)

\* list.remove: drops the first occurrence
RECURSIVE RemoveFirst(_, _)
RemoveFirst(s, x) ==
    IF s = <<>> THEN <<>>
    ELSE IF Head(s) = x THEN Tail(s)
    ELSE <<Head(s)>> \o RemoveFirst(Tail(s), x)

\* a return that skips the removal of the root
RemoveRootNever(s, root) == s

\* "if root_node.filepath in internal: internal.remove(root_node.filepath)"
RemoveRoot(s, root) == IF Contains(s, root) THEN RemoveFirst(s, root) ELSE s

----------------------------------------------------------------------------
(* Guarded merge engine *)

NoGuard == ""   \* current_guard = None

\* One iteration of the loop over the lines in _process_file_content.
\* st = [skip, guard, guards, out]: skip_until_endif, current_guard,
\* included_guards and processed_lines.
ProcessLine(st, line, is_main) ==
    LET emit(t) == IF t.skip = 0 THEN [t EXCEPT !.out = Append(@, line)] ELSE t
    IN
    IF line.k \in {"ifndef", "ifdef"} THEN
        IF line.k = "ifndef" /\ line.n \in st.guards
            THEN [st EXCEPT !.skip = @ + 1]
        ELSE IF line.k = "ifndef"
            THEN emit([st EXCEPT !.guard = line.n])
        ELSE emit(st)
    ELSE IF line.k = "define" /\ st.guard # NoGuard THEN
        IF line.n = st.guard
            THEN emit([st EXCEPT !.guards = @ \cup {line.n}])
            ELSE emit(st)
    ELSE IF line.k = "endif" THEN
        IF st.skip > 0
            THEN [st EXCEPT !.skip = @ - 1]
            ELSE emit([st EXCEPT !.guard = NoGuard])
    ELSE IF IsIncludeLine(line) THEN
        IF ~is_main THEN st ELSE emit(st)
    ELSE emit(st)

RECURSIVE ProcessLines(_, _, _, _)
ProcessLines(st, content, i, is_main) ==
    IF i > Len(content) THEN st
    ELSE ProcessLines(ProcessLine(st, content[i], is_main), content, i + 1, is_main)

\* _process_file_content: the processed lines and included_guards afterwards
ProcessFileContent(content, included_guards, is_main) ==
    LET st == ProcessLines([skip |-> 0, guard |-> NoGuard,
                            guards |-> included_guards, out |-> <<>>],
                           content, 1, is_main)
    IN [lines |-> st.out, guards |-> st.guards]

\* ", ".join(files), as one path-like sequence
RECURSIVE JoinPaths(_)
JoinPaths(files) ==
    IF files = <<>> THEN <<>>
    ELSE IF Len(files) = 1 THEN Head(files)
    ELSE Head(files) \o <<", ">> \o JoinPaths(Tail(files))

HeaderLines(files) ==
    << Line("comment", "Merged source file generated by Formal Verifier", <<>>),
       Line("origfiles", "", JoinPaths(files)),
       Text("") >>

BeginMarker(p) == Line("begin", "", p)
EndMarker(p)   == Line("end", "", p)
MainMarker(p)  == Line("mainsrc", "", p)

\* the loop "for filepath in files" of get_merged_content
RECURSIVE MergeFiles(_, _, _, _)
MergeFiles(nds, files, i, acc) ==
    IF i > Len(files) THEN acc
    ELSE IF files[i] \notin DOMAIN nds THEN MergeFiles(nds, files, i + 1, acc)
    ELSE LET r == ProcessFileContent(nds[files[i]].content, acc.guards, FALSE) IN
         MergeFiles(nds, files, i + 1,
                    [guards |-> r.guards,
                     out |-> acc.out \o <<BeginMarker(files[i])>> \o r.lines
                                     \o <<EndMarker(files[i]), Text("")>>])

\* self.nodes.get(root_file): the key is the argument as written; an
\* absolute path is never a key of nodes
RootLookup(arg) == IF arg.form = "rel" THEN arg.path ELSE NoPath

\* get_merged_content with included_guards kept on the graph between calls:
\* a call starts from the guards the earlier output registered
GetMergedContentKeepingGuards(nds, files, root_file) ==
    IF files = <<>> THEN <<>>
    ELSE LET kept == {merged[i].n : i \in {j \in DOMAIN merged : merged[j].k = "define"}}
             acc  == MergeFiles(nds, files, 1,
                                [guards |-> kept, out |-> HeaderLines(files)])
             rk   == RootLookup(root_file)
         IN  IF rk \in DOMAIN nds
             THEN acc.out \o <<MainMarker(rk)>>
                          \o ProcessFileContent(nds[rk].content, acc.guards, TRUE).lines
             ELSE acc.out

\* get_merged_content(files, root_file); the empty text "" is <<>>
GetMergedContent(nds, files, root_file) ==
    IF files = <<>> THEN <<>>
    ELSE LET acc == MergeFiles(nds, files, 1,
                               [guards |-> {}, out |-> HeaderLines(files)])
             rk  == RootLookup(root_file)
         IN  IF rk \in DOMAIN nds
             THEN acc.out \o <<MainMarker(rk)>>
                          \o ProcessFileContent(nds[rk].content, acc.guards, TRUE).lines
             ELSE acc.out

----------------------------------------------------------------------------
(* The projects the model runs on *)

BodyTok(f) ==
    CASE f = MainC  -> "int main_body;"
      [] f = UtilsH -> "int utils_body;"
      [] f = SrcUtilsH -> "int src_utils_body;"
      [] OTHER      -> "int b_body;"

GuardOf(f) ==
    CASE f = MainC  -> "MAIN_C"
      [] f = UtilsH -> "UTILS_H"
      [] OTHER      -> "B_H"

DebugTok(f) ==
    CASE f = MainC  -> "int main_dbg;"
      [] f = UtilsH -> "int utils_dbg;"
      [] OTHER      -> "int b_dbg;"

PlainBody(f)   == << Text(BodyTok(f)) >>
GuardedBody(f) == << Ifndef(GuardOf(f)), Define(GuardOf(f)), Text(BodyTok(f)), Endif >>
NestedBody(f)  == << Ifndef(GuardOf(f)), Define(GuardOf(f)),
                     Ifdef("DEBUG"), Text(DebugTok(f)), Endif,
                     Text(BodyTok(f)), Endif >>

Bodies(f) == IF f = UtilsH THEN {PlainBody(f), GuardedBody(f), NestedBody(f)}
             ELSE {PlainBody(f)}

\* the include directives a file may hold
IncludeLines(f) ==
    CASE f = MainC  -> { Loc(<<"utils.h">>), Loc(<<"src", "b.h">>),
                         Sys(<<"stdio.h">>), Loc(<<"missing.h">>),
                         Sys(<<"utils.h">>) }
      [] f = UtilsH -> { Loc(<<"main.c">>), Loc(<<"utils.h">>),
                         Loc(<<"src", "b.h">>), Sys(<<"stdio.h">>) }
      [] OTHER      -> { Loc(<<"b.h">>), Loc(<<"utils.h">>),
                         Loc(<<"..", "utils.h">>), Loc(<<"..", "src", "b.h">>) }

IncludeSeqs(f, n) == [1..n -> IncludeLines(f)]

RootArgs == {RelArg(f) : f \in AllFiles} \cup {AbsArg(MainC), OutsideArg, CwdArg}

FsInit ==
    \E n1 \in 0..MaxIncludes, n2 \in 0..MaxIncludes, n3 \in 0..MaxIncludes :
        /\ n1 + n2 + n3 <= MaxIncludes
        /\ \E s1 \in IncludeSeqs(MainC, n1), s2 \in IncludeSeqs(UtilsH, n2),
              s3 \in IncludeSeqs(SrcB, n3) :
           \E b1 \in Bodies(MainC), b2 \in Bodies(UtilsH), b3 \in Bodies(SrcB) :
           \E more \in SUBSET {SrcUtilsH} :
              fsText = (MainC :> (s1 \o b1)) @@ (UtilsH :> (s2 \o b2))
                       @@ (SrcB :> (s3 \o b3))
                       @@ [f \in more |-> PlainBody(f)]
    /\ unreadable \in {{}, {SrcB}}

----------------------------------------------------------------------------
(* resolve_dependencies and get_merged_content on one DependencyGraph *)

GraphInit ==
    /\ nodes = EmptyNodes
    /\ rootArg = OutsideArg
    /\ rootKey = NoPath
    /\ internal = <<>>
    /\ external = <<>>
    /\ visited = {}
    /\ stack = <<>>
    /\ rpc = "idle"
    /\ merged = <<>>
    /\ mpc = "idle"

Top == stack[Len(stack)]
TopInclude == nodes[Top.key].includes[Top.idx]
Advance(st) == [st EXCEPT ![Len(st)].idx = @ + 1]
AtInclude == rpc = "traversing" /\ stack # <<>>
             /\ Top.idx <= Len(nodes[Top.key].includes)

\* a traversal that finishes the including file before it enters the
\* included one
EnterAfterCurrent(st, key) ==
    Front(st) \o << [key |-> key, idx |-> 1], Advance(st)[Len(st)] >>

\* traverse(include_node), called from inside the loop over node.includes:
\* the included file is processed before the loop goes on
Enter(st, key) == Append(Advance(st), [key |-> key, idx |-> 1])

\* resolve_dependencies(root_file) up to the call traverse(root_node)
ResolveBegin(arg) ==
    /\ rpc = "idle"
    /\ rootArg' = arg
    /\ LET r == AddFile(nodes, arg) IN
       /\ nodes' = r.nodes
       /\ rootKey' = IF r.key = RaisePath THEN NoPath ELSE r.key
       /\ internal' = <<>>
       /\ external' = <<>>
       /\ IF r.key = RaisePath
          THEN rpc' = "raised" /\ visited' = {} /\ stack' = <<>>
          ELSE IF r.key = NoPath
          THEN rpc' = "done" /\ visited' = {} /\ stack' = <<>>
          ELSE /\ rpc' = "traversing"
               /\ visited' = {r.key}
               /\ stack' = << [key |-> r.key, idx |-> 1] >>
    /\ UNCHANGED <<fsText, unreadable, merged, mpc>>

ResolveStart(arg) == ResolveBegin(arg) /\ UNCHANGED <<pvars, avars>>

\* traverse: an include with is_system
TraverseSystem ==
    /\ UNCHANGED <<pvars, avars>>
    /\ AtInclude
    /\ TopInclude.is_system
    /\ external' = AppendNew(external, TopInclude.filename)
    /\ stack' = Advance(stack)
    /\ UNCHANGED <<fsText, unreadable, nodes, rootArg, rootKey, internal,
                   visited, rpc, merged, mpc>>

\* traverse: a local include that _find_include_file resolves; the call
\* traverse(include_node) returns at once when the node was visited
TraverseLocalFound ==
    /\ UNCHANGED <<pvars, avars>>
    /\ AtInclude
    /\ ~TopInclude.is_system
    /\ \E ip \in {FindIncludeFile(TopInclude.filename, Top.key)} :
       /\ ip \notin {NoPath, RaisePath}
       /\ internal' = AppendNew(internal, ip)
       /\ \E r \in {AddFile(nodes, RelArg(ip))} :
          LET enter == r.key # NoPath /\ r.key \notin visited IN
          /\ nodes' = r.nodes
          /\ visited' = IF enter THEN visited \cup {r.key} ELSE visited
          /\ stack' = IF enter THEN Enter(stack, r.key) ELSE Advance(stack)
    /\ UNCHANGED <<fsText, unreadable, rootArg, rootKey, external, rpc, merged, mpc>>

\* traverse: a local include that resolves to no file
TraverseLocalMissing ==
    /\ UNCHANGED <<pvars, avars>>
    /\ AtInclude
    /\ ~TopInclude.is_system
    /\ FindIncludeFile(TopInclude.filename, Top.key) = NoPath
    /\ external' = AppendNew(external, TopInclude.filename)
    /\ stack' = Advance(stack)
    /\ UNCHANGED <<fsText, unreadable, nodes, rootArg, rootKey, internal,
                   visited, rpc, merged, mpc>>

\* traverse: Path.exists() raises; the exception leaves resolve_dependencies
TraverseRaise ==
    /\ UNCHANGED <<pvars, avars>>
    /\ AtInclude
    /\ ~TopInclude.is_system
    /\ FindIncludeFile(TopInclude.filename, Top.key) = RaisePath
    /\ rpc' = "raised"
    /\ stack' = <<>>
    /\ UNCHANGED <<fsText, unreadable, nodes, rootArg, rootKey, internal, external,
                   visited, merged, mpc>>

\* traverse returns to the traverse that called it
TraverseReturn ==
    /\ UNCHANGED <<pvars, avars>>
    /\ rpc = "traversing"
    /\ Len(stack) > 1
    /\ Top.idx > Len(nodes[Top.key].includes)
    /\ stack' = Front(stack)
    /\ UNCHANGED <<fsText, unreadable, nodes, rootArg, rootKey, internal, external,
                   visited, rpc, merged, mpc>>

\* traverse(root_node) returns; the root is removed and the result returned
ResolveReturn ==
    /\ UNCHANGED <<pvars, avars>>
    /\ rpc = "traversing"
    /\ Len(stack) = 1
    /\ Top.idx > Len(nodes[Top.key].includes)
    /\ stack' = <<>>
    /\ internal' = RemoveRoot(internal, rootKey)
    /\ rpc' = "done"
    /\ UNCHANGED <<fsText, unreadable, nodes, rootArg, rootKey, external,
                   visited, merged, mpc>>

\* get_merged_content(deps["internal"], root_file) on the same graph
Merge ==
    /\ UNCHANGED <<pvars, avars>>
    /\ rpc = "done"
    /\ mpc = "idle"
    /\ merged' = GetMergedContent(nodes, internal, rootArg)
    /\ mpc' = "merged"
    /\ UNCHANGED <<fsText, unreadable, nodes, rootArg, rootKey, internal, external,
                   visited, stack, rpc>>

\* the same call once more: get_merged_content(deps["internal"], root_file)
MergeAgain ==
    /\ mpc = "merged"
    /\ merged_again' = GetMergedContent(nodes, internal, rootArg)
    /\ mpc' = "merged_again"
    /\ UNCHANGED <<fsText, unreadable, nodes, rootArg, rootKey, internal, external,
                   visited, stack, rpc, merged>>
    /\ UNCHANGED <<pvars, other_run, cls, add_result, ext, cleanup>>

TraverseStep ==
    \/ TraverseSystem
    \/ TraverseLocalFound
    \/ TraverseLocalMissing
    \/ TraverseRaise
    \/ TraverseReturn
    \/ ResolveReturn

NullText == << Line("null", "", <<>>) >>   \* None, for a text
NoArg    == [form |-> "none", path |-> <<>>]  \* file_path = None

\* no run_pipeline call is in progress
PipelineIdle ==
    /\ ppc = "idle"
    /\ source_code = <<>>
    /\ file_path = NoArg
    /\ inline_dependencies = TRUE
    /\ has_callback = FALSE
    /\ current_stage = "INIT"
    /\ stages_completed = <<>>
    /\ errors = <<>>
    /\ notified = <<>>
    /\ success = FALSE
    /\ merged_code = NullText
    /\ annotated_code = NullText
    /\ verification_result = "none"
    /\ temp_files = <<>>
    /\ internal_files = <<>>
    /\ calls = <<>>
    /\ warnings = <<>>

\* the locals of a run_pipeline call that has not started
IdleRun ==
    [ ppc |-> "idle", source_code |-> <<>>, file_path |-> NoArg,
      inline_dependencies |-> TRUE, has_callback |-> FALSE,
      current_stage |-> "INIT", stages_completed |-> <<>>, errors |-> <<>>,
      notified |-> <<>>, success |-> FALSE, merged_code |-> NullText,
      annotated_code |-> NullText, verification_result |-> "none",
      temp_files |-> <<>>, internal_files |-> <<>>, calls |-> <<>>,
      warnings |-> <<>>,
      nodes |-> EmptyNodes, rootArg |-> OutsideArg, rootKey |-> NoPath,
      internal |-> <<>>, external |-> <<>>, visited |-> {}, stack |-> <<>>,
      rpc |-> "idle" ]

\* classify_dependencies has not been called
NoClassify == [includes |-> <<>>, done |-> FALSE, raised |-> FALSE,
               internal |-> <<>>, external |-> <<>>]

\* no second run, no classification call
\* no add_file call has been made by a caller
NoAdd == [arg |-> NoArg, key |-> NoPath, content |-> <<>>, disk |-> <<>>]

\* _extract_includes has not been called
NoExtract == [text |-> <<>>, done |-> FALSE, records |-> <<>>]

\* cleanup_temp_files has not been called; preserve_temp_files has its default
NoCleanup == [preserve |-> FALSE, done |-> FALSE, removed |-> {}, warned |-> {}]

ApartIdle == /\ other_run = IdleRun /\ cls = NoClassify /\ merged_again = <<>>
             /\ add_result = NoAdd /\ ext = NoExtract /\ cleanup = NoCleanup

Init == FsInit /\ GraphInit /\ PipelineIdle /\ ApartIdle

Next ==
    \/ \E arg \in RootArgs : ResolveStart(arg)
    \/ TraverseStep
    \/ Merge
    \/ MergeAgain

Spec == Init /\ [][Next]_vars

----------------------------------------------------------------------------
(* VerificationPipeline.run_pipeline *)

\* most include directives in the project's files of a pipeline run
MaxPipelineIncludes == 1
\* config.verification.max_file_size, in lines instead of bytes
MaxFileSize == 12

Stages == << "INIT", "DEPENDENCY_RESOLUTION", "CODE_MERGING", "ANNOTATION",
             "VERIFICATION", "RESULT_FORMATTING" >>

SupportedExtensions == {".c", ".h"}

SystemHeaders ==
    { <<"stdio.h">>, <<"stdlib.h">>, <<"string.h">>, <<"math.h">>, <<"time.h">>,
      <<"errno.h">>, <<"unistd.h">>, <<"fcntl.h">>, <<"sys", "types.h">>,
      <<"sys", "stat.h">>, <<"pthread.h">> }

EmptySource == <<>>
BlankSource == << Text(" ") >>
BigSource   == [i \in 1..(MaxFileSize + 1) |-> Text("int x;")]

IsBlank(text) == \A i \in 1..Len(text) : text[i] \in {Text(" "), Text("")}

\* os.path.splitext(file_path)[1]
ExtOf(arg) ==
    CASE Last(arg.path) \in {"main.c", "file.c"} -> ".c"
      [] Last(arg.path) \in {"utils.h", "b.h"}   -> ".h"
      [] OTHER                                   -> ".py"

\* a validation without the test of the file extension
ValidateInputNoExtension(src, fp) ==
    IF IsBlank(src) THEN "Source code is empty or None"
    ELSE IF Len(src) > MaxFileSize THEN "Source code exceeds maximum size"
    ELSE ""

\* _validate_input: the message of the PipelineError raised, "" for none
ValidateInput(src, fp) ==
    IF IsBlank(src) THEN "Source code is empty or None"
    ELSE IF Len(src) > MaxFileSize THEN "Source code exceeds maximum size"
    ELSE IF fp # NoArg /\ ExtOf(fp) \notin SupportedExtensions
         THEN "Unsupported file extension"
    ELSE ""

\* re.findall(r'#include\s+[<"]([^">]+)[">]', source_code)
FindIncludeNames(src) ==
    LET incs == ExtractIncludes(src) IN [i \in 1..Len(incs) |-> incs[i].filename]

\* a classification that looks for a project file before the table
RECURSIVE ClassifyFromFilesFirst(_, _, _)
ClassifyFromFilesFirst(includes, i, acc) ==
    IF i > Len(includes) THEN acc
    ELSE LET inc == includes[i] IN
         IF \/ PathExists(inc)
            \/ PathExists(<<"include">> \o inc)
            \/ PathExists(<<"src">> \o inc)
             THEN ClassifyFromFilesFirst(includes, i + 1,
                               [acc EXCEPT !.internal = Append(@, inc)])
         ELSE ClassifyFromFilesFirst(includes, i + 1,
                           [acc EXCEPT !.external = Append(@, inc)])

\* any(p.exists() for p in potential_paths): "yes", "no", or "raise" when
\* Path.exists() raises on a path the file system rejects as too long
FoundInProject(inc) ==
    IF Len(inc) > MaxPathLen THEN "raise"
    ELSE IF PathExists(inc) THEN "yes"
    ELSE IF Len(inc) + 1 > MaxPathLen THEN "raise"
    ELSE IF PathExists(<<"include">> \o inc) \/ PathExists(<<"src">> \o inc) THEN "yes"
    ELSE "no"

\* classify_dependencies: the loop over includes; raised when an exception
\* left the loop
RECURSIVE ClassifyFrom(_, _, _)
ClassifyFrom(includes, i, acc) ==
    IF i > Len(includes) \/ acc.raised THEN acc
    ELSE LET inc == includes[i] IN
         IF inc[1] \in {"/usr", "/opt"} \/ inc \in SystemHeaders
             THEN ClassifyFrom(includes, i + 1,
                               [acc EXCEPT !.external = Append(@, inc)])
         ELSE IF FoundInProject(inc) = "raise"
             THEN [acc EXCEPT !.raised = TRUE]
         ELSE IF FoundInProject(inc) = "yes"
             THEN ClassifyFrom(includes, i + 1,
                               [acc EXCEPT !.internal = Append(@, inc)])
         ELSE ClassifyFrom(includes, i + 1,
                           [acc EXCEPT !.external = Append(@, inc)])

ClassifyDependencies(includes) ==
    ClassifyFrom(includes, 1, [internal |-> <<>>, external |-> <<>>, raised |-> FALSE])

InlinedMarker(p) == Line("inlined", "", p)
OriginalMarker   == Line("origsrc", "", <<>>)

\* _merge_code without a file path: the simple concatenation. A file that
\* exists under the project root but cannot be opened makes open() raise.
RECURSIVE ConcatFrom(_, _, _)
ConcatFrom(files, i, acc) ==
    IF i > Len(files) THEN acc
    ELSE IF ~acc.ok THEN acc
    ELSE IF ~PathExists(files[i]) THEN ConcatFrom(files, i + 1, acc)
    ELSE IF ~Readable(files[i]) THEN [acc EXCEPT !.ok = FALSE]
    ELSE ConcatFrom(files, i + 1,
             [acc EXCEPT !.text = @ \o <<Text(""), InlinedMarker(files[i])>>
                                    \o fsText[Normalize(files[i])]])

\* _merge_code: [ok, text]; ok is FALSE when the body raised
MergeCode(src, files, fp, inline) ==
    IF files = <<>> \/ ~inline THEN [ok |-> TRUE, text |-> src]
    ELSE IF fp # NoArg
        THEN [ok |-> AddFile(EmptyNodes, fp).key # RaisePath,
              text |-> GetMergedContent(AddFile(EmptyNodes, fp).nodes, files, fp)]
    ELSE LET c == ConcatFrom(files, 1, [ok |-> TRUE, text |-> <<>>]) IN
         [ok |-> c.ok, text |-> c.text \o <<Text(""), OriginalMarker>> \o src]

\* the text annotate_code returns for code
Annotated(code) == << Line("comment", "ACSL annotations", <<>>) >> \o code

\* a handler with the "except PipelineError" clause only
CaughtPipelineErrorOnly(kind) == kind = "PipelineError"

\* the except clauses of run_pipeline: PipelineError, then Exception
Caught(kind) == kind \in {"PipelineError", "Exception"}

\* a handler that also records the original error as an entry of its own
ErrorsAfterWithOriginal(errs, msg) == Append(Append(errs, msg), "Original error")

\* progress.errors.append(...) in the except clause
ErrorsAfter(errs, msg) == Append(errs, msg)

\* a service handed the caller's source text whatever the stage produced
ServiceCallOnSource(svc, arg) == [svc |-> svc, arg |-> source_code]

\* annotate_code(code), verify_code(annotated_code): the call a service receives
ServiceCall(svc, arg) == [svc |-> svc, arg |-> arg]

\* a record that lags one stage behind: the stage before the one that ended
CompletedPrevious(done, stage) ==
    LET i == CHOOSE j \in 1..Len(Stages) : Stages[j] = stage IN
    IF i = 1 THEN done ELSE Append(done, Stages[i - 1])

\* a stage recorded when it is entered and again when it is left
CompletedTwice(done, stage) == Append(Append(done, stage), stage)

\* progress.stages_completed.append(stage)
Completed(done, stage) == Append(done, stage)

\* a success flag that follows the verifier's verdict
SuccessFromVerdict(verdict) == verdict = "verified"

\* result.success on the success path
SuccessValue(verdict) == TRUE

ObserverOutcomes == IF has_callback THEN {"ok", "raise"} ELSE {"ok"}
ServiceOutcomes  == {"ok", "raise"}
Verdicts         == {"verified", "rejected"}

\* _update_progress(progress, stage, message)
UpdateProgress(stage) ==
    /\ current_stage' = stage
    /\ notified' = IF has_callback
                   THEN Append(notified, [stage |-> stage,
                                          completed |-> Len(stages_completed)])
                   ELSE notified

\* a run_pipeline without except clauses: the exception reaches the caller
RaiseToCaller(kind, msg) == UNCHANGED errors /\ ppc' = "propagated"

\* an exception of class kind leaves the try block
Raise(kind, msg) ==
    IF Caught(kind)
    THEN errors' = ErrorsAfter(errors, msg) /\ ppc' = "returned"
    ELSE UNCHANGED errors /\ ppc' = "propagated"

Unexpected == "Unexpected error"

pinputs == <<source_code, file_path, inline_dependencies, has_callback>>

\* run_pipeline is called; stage 1: initialization and validation
StageInit(src, fp, inline, cb) ==
    /\ ppc = "idle"
    /\ source_code' = src
    /\ file_path' = fp
    /\ inline_dependencies' = inline
    /\ has_callback' = cb
    /\ current_stage' = "INIT"
    /\ notified' = IF cb THEN << [stage |-> "INIT", completed |-> 0] >> ELSE <<>>
    /\ \E obs \in (IF cb THEN {"ok", "raise"} ELSE {"ok"}) :
          IF obs = "raise"
              THEN Raise("Exception", Unexpected) /\ UNCHANGED stages_completed
          ELSE IF ValidateInput(src, fp) # ""
              THEN Raise("PipelineError", ValidateInput(src, fp))
                   /\ UNCHANGED stages_completed
          ELSE /\ stages_completed' = Completed(stages_completed, "INIT")
               /\ ppc' = "DEPENDENCY_RESOLUTION"
               /\ UNCHANGED errors
    /\ warnings' = <<>>
    /\ UNCHANGED <<gvars, avars, success, merged_code, annotated_code,
                   verification_result, temp_files, internal_files, calls>>

\* stage 2 begins: _resolve_dependencies with the dependency graph ...
StageResolveGraph ==
    /\ ppc = "DEPENDENCY_RESOLUTION"
    /\ file_path # NoArg /\ inline_dependencies
    /\ UpdateProgress("DEPENDENCY_RESOLUTION")
    /\ \E obs \in ObserverOutcomes :
          IF obs = "raise"
              THEN Raise("Exception", Unexpected) /\ UNCHANGED gvars
              ELSE /\ ResolveBegin(file_path)
                   /\ ppc' = "RESOLVING"
                   /\ UNCHANGED errors
    /\ UNCHANGED <<avars, warnings, pinputs, stages_completed, success, merged_code, annotated_code,
                   verification_result, temp_files, internal_files, calls>>

\* ... resolve_dependencies has returned or raised
StageResolveEnd ==
    /\ ppc = "RESOLVING"
    /\ rpc \in {"done", "raised"}
    /\ IF rpc = "raised"
       THEN Raise("PipelineError", "Failed to resolve dependencies")
            /\ UNCHANGED <<internal_files, stages_completed>>
       ELSE /\ internal_files' = internal
            /\ stages_completed' = Completed(stages_completed, "DEPENDENCY_RESOLUTION")
            /\ ppc' = "CODE_MERGING"
            /\ UNCHANGED errors
    /\ UNCHANGED <<gvars, avars, warnings, pinputs, current_stage, notified, success, merged_code,
                   annotated_code, verification_result, temp_files, calls>>

\* stage 2 with the simple classification of the includes of source_code
StageResolveFallback ==
    /\ ppc = "DEPENDENCY_RESOLUTION"
    /\ ~(file_path # NoArg /\ inline_dependencies)
    /\ UpdateProgress("DEPENDENCY_RESOLUTION")
    /\ \E obs \in ObserverOutcomes :
          IF obs = "raise"
              THEN Raise("Exception", Unexpected)
                   /\ UNCHANGED <<internal_files, stages_completed>>
          ELSE IF ClassifyDependencies(FindIncludeNames(source_code)).raised
              THEN Raise("PipelineError", "Failed to resolve dependencies")
                   /\ UNCHANGED <<internal_files, stages_completed>>
              ELSE /\ internal_files' =
                          ClassifyDependencies(FindIncludeNames(source_code)).internal
                   /\ stages_completed' =
                          Completed(stages_completed, "DEPENDENCY_RESOLUTION")
                   /\ ppc' = "CODE_MERGING"
                   /\ UNCHANGED errors
    /\ UNCHANGED <<gvars, avars, warnings, pinputs, success, merged_code, annotated_code,
                   verification_result, temp_files, calls>>

\* stage 3: code merging
StageMerge ==
    /\ ppc = "CODE_MERGING"
    /\ UpdateProgress("CODE_MERGING")
    /\ \E obs \in ObserverOutcomes :
          LET m == MergeCode(source_code, internal_files, file_path,
                             inline_dependencies) IN
          IF obs = "raise"
              THEN Raise("Exception", Unexpected)
                   /\ UNCHANGED <<merged_code, stages_completed>>
          ELSE IF ~m.ok
              THEN Raise("PipelineError", "Failed to merge code")
                   /\ UNCHANGED <<merged_code, stages_completed>>
          ELSE /\ merged_code' = m.text
               /\ stages_completed' = Completed(stages_completed, "CODE_MERGING")
               /\ ppc' = "ANNOTATION"
               /\ UNCHANGED errors
    /\ UNCHANGED <<gvars, avars, warnings, pinputs, success, annotated_code, verification_result,
                   temp_files, internal_files, calls>>

\* stage 4: annotation
StageAnnotate ==
    /\ ppc = "ANNOTATION"
    /\ UpdateProgress("ANNOTATION")
    /\ \E obs \in ObserverOutcomes, out \in ServiceOutcomes :
          IF obs = "raise"
              THEN Raise("Exception", Unexpected)
                   /\ UNCHANGED <<annotated_code, stages_completed, calls>>
          ELSE /\ calls' = Append(calls, ServiceCall("annotate", merged_code))
               /\ IF out = "raise"
                  THEN Raise("PipelineError", "Failed to annotate code")
                       /\ UNCHANGED <<annotated_code, stages_completed>>
                  ELSE /\ annotated_code' = Annotated(merged_code)
                       /\ stages_completed' = Completed(stages_completed, "ANNOTATION")
                       /\ ppc' = "SAVE_TEMP"
                       /\ UNCHANGED errors
    /\ UNCHANGED <<gvars, avars, warnings, pinputs, success, merged_code, verification_result,
                   temp_files, internal_files>>

\* save_temp_file(annotated_code), between stage 4 and stage 5
SaveTemp ==
    /\ ppc = "SAVE_TEMP"
    /\ \E out \in ServiceOutcomes :
          IF out = "raise"
              THEN Raise("Exception", Unexpected) /\ UNCHANGED temp_files
              ELSE /\ temp_files' = Append(temp_files, "temp_file")
                   /\ ppc' = "VERIFICATION"
                   /\ UNCHANGED errors
    /\ UNCHANGED <<gvars, avars, warnings, pinputs, current_stage, stages_completed, notified,
                   success, merged_code, annotated_code, verification_result,
                   internal_files, calls>>

\* stage 5: verification
StageVerify ==
    /\ ppc = "VERIFICATION"
    /\ UpdateProgress("VERIFICATION")
    /\ \E obs \in ObserverOutcomes, out \in ServiceOutcomes, v \in Verdicts :
          IF obs = "raise"
              THEN Raise("Exception", Unexpected)
                   /\ UNCHANGED <<verification_result, stages_completed, calls>>
          ELSE /\ calls' = Append(calls, ServiceCall("verify", annotated_code))
               /\ IF out = "raise"
                  THEN Raise("PipelineError", "Failed to verify code")
                       /\ UNCHANGED <<verification_result, stages_completed>>
                  ELSE /\ verification_result' = v
                       /\ stages_completed' = Completed(stages_completed, "VERIFICATION")
                       /\ ppc' = "RESULT_FORMATTING"
                       /\ UNCHANGED errors
    /\ UNCHANGED <<gvars, avars, warnings, pinputs, success, merged_code, annotated_code,
                   temp_files, internal_files>>

\* stage 6: result formatting, and the end of the try block
StageFormat ==
    /\ ppc = "RESULT_FORMATTING"
    /\ notified' = IF has_callback
                   THEN Append(notified, [stage |-> "RESULT_FORMATTING",
                                          completed |-> Len(stages_completed)])
                   ELSE notified
    /\ \E obs \in ObserverOutcomes :
          IF obs = "raise"
              THEN /\ Raise("Exception", Unexpected)
                   /\ current_stage' = "RESULT_FORMATTING"
                   /\ UNCHANGED <<stages_completed, success>>
              ELSE /\ stages_completed' = Completed(stages_completed, "RESULT_FORMATTING")
                   /\ current_stage' = "COMPLETE"
                   /\ success' = SuccessValue(verification_result)
                   /\ ppc' = "returned"
                   /\ UNCHANGED errors
    /\ UNCHANGED <<gvars, avars, warnings, pinputs, merged_code, annotated_code, verification_result,
                   temp_files, internal_files, calls>>

\* the projects and the arguments of a pipeline run
PipelineFsInit ==
    /\ \E n1 \in 0..MaxPipelineIncludes, n2 \in 0..MaxPipelineIncludes,
          n3 \in 0..MaxPipelineIncludes :
        /\ n1 + n2 + n3 <= MaxPipelineIncludes
        /\ \E s1 \in IncludeSeqs(MainC, n1), s2 \in IncludeSeqs(UtilsH, n2),
              s3 \in IncludeSeqs(SrcB, n3) :
              fsText = (MainC :> (s1 \o PlainBody(MainC)))
                       @@ (UtilsH :> (s2 \o PlainBody(UtilsH)))
                       @@ (SrcB :> (s3 \o PlainBody(SrcB)))
    /\ unreadable \in {{}, {UtilsH}}

FilePaths == { NoArg, RelArg(MainC), AbsArg(MainC), RelArg(SrcB),
               RelArg(<<"test.py">>), OutsideArg, CwdArg }

\* the text a caller passes with file_path: the text of that file
SourceOf(fp) ==
    IF fp.form \in {"rel", "abs"} /\ fp.path \in DOMAIN fsText
    THEN fsText[fp.path] ELSE fsText[MainC]

Sources(fp) == {EmptySource, BlankSource, BigSource, SourceOf(fp)}

PipelineInit == PipelineFsInit /\ GraphInit /\ PipelineIdle /\ ApartIdle

PipelineNext ==
    \/ \E fp \in FilePaths, inline \in BOOLEAN, cb \in BOOLEAN :
          \E src \in Sources(fp) : StageInit(src, fp, inline, cb)
    \/ StageResolveGraph
    \/ TraverseStep
    \/ StageResolveEnd
    \/ StageResolveFallback
    \/ StageMerge
    \/ StageAnnotate
    \/ SaveTemp
    \/ StageVerify
    \/ StageFormat

PipelineSpec == PipelineInit /\ [][PipelineNext]_vars

\* one thread runs the stages in sequence and every call it makes returns
\* or raises, so a run that can take a step takes it
PipelineFairSpec == PipelineSpec /\ WF_vars(PipelineNext)

----------------------------------------------------------------------------
(* Properties of resolve_dependencies *)

Range(s) == {s[i] : i \in 1..Len(s)}
NoDuplicates(s) == \A i, j \in 1..Len(s) : s[i] = s[j] => i = j
Count(s, x) == Cardinality({i \in 1..Len(s) : s[i] = x})

\* The file a quoted include of file f denotes: looked up in f's directory,
\* then under the project root; NoPath when neither exists.
IncludeTarget(f, name) ==
    IF PathExists(Parent(f) \o name) THEN Normalize(Parent(f) \o name)
    ELSE IF PathExists(name) THEN Normalize(name)
    ELSE NoPath

LocalNames(f)  == {l.p : l \in {x \in Range(fsText[f]) : x.k = "loc"}}
SystemNames(f) == {l.p : l \in {x \in Range(fsText[f]) : x.k = "sys"}}

\* files whose text can be read, and so whose includes can be followed
ReadableFiles == DOMAIN fsText \ unreadable

Successors(f) ==
    IF f \in ReadableFiles
    THEN {IncludeTarget(f, n) : n \in LocalNames(f)} \ {NoPath}
    ELSE {}

RECURSIVE ReachFrom(_)
ReachFrom(seen) ==
    LET more == UNION {Successors(f) : f \in seen} IN
    IF more \subseteq seen THEN seen ELSE ReachFrom(seen \cup more)

\* the root and every file reachable from it through quoted includes
Reachable(root) == ReachFrom({root})

ExternalNames(root) ==
    UNION { SystemNames(f) \cup {n \in LocalNames(f) : IncludeTarget(f, n) = NoPath}
            : f \in Reachable(root) \cap ReadableFiles }

Returned == rpc = "done" /\ rootKey # NoPath

\* the two-file cycle main.c <-> utils.h resolved from main.c
TwoFileCycle ==
    /\ rootKey = MainC
    /\ LocalNames(MainC) = {UtilsH} /\ SystemNames(MainC) = {}
    /\ LocalNames(UtilsH) = {MainC} /\ SystemNames(UtilsH) = {}
    /\ unreadable = {}

\* C1: resolve_dependencies terminates on every include relation (the
\* traversal of a root it has found never raises) and traverses each
\* distinct file at most once; for the two-file cycle A <-> B, resolving A
\* returns internal = [B].
C1_TerminatesEachFileOnce ==
    /\ ~(rpc = "raised" /\ rootKey # NoPath)
    /\ \A k1, k2 \in visited : Normalize(k1) = Normalize(k2) => k1 = k2
    /\ (Returned /\ TwoFileCycle) => internal = <<UtilsH>>

\* C2: the returned internal list denotes exactly the files reachable from
\* the root through quoted includes that resolve to project files, the root
\* excluded, and the returned external list holds exactly the angle-bracket
\* names and the unresolved quoted names of the root and of those files;
\* main.c with "utils.h" and <stdio.h> yields [utils.h] and [stdio.h].
C2_InternalExternalExact ==
    Returned =>
        /\ {Normalize(k) : k \in Range(internal)}
               = Reachable(Normalize(rootKey)) \ {Normalize(rootKey)}
        /\ Range(external) = ExternalNames(Normalize(rootKey))
        /\ ( /\ rootKey = MainC
             /\ ExtractIncludes(fsText[MainC]) =
                   << [filename |-> <<"utils.h">>, is_system |-> FALSE, line_number |-> 1],
                      [filename |-> <<"stdio.h">>, is_system |-> TRUE, line_number |-> 2] >>
             /\ ExtractIncludes(fsText[UtilsH]) = <<>> )
           => (internal = <<UtilsH>> /\ external = << <<"stdio.h">> >>)

C2_Witness ==
    /\ Returned
    /\ rootKey = MainC
    /\ internal = <<UtilsH>>
    /\ external = << <<"stdio.h">> >>

\* C3: the returned internal list never contains the root file's own path,
\* also when a file reachable from the root includes the root back.
C3_RootNotInternal ==
    Returned => ~Contains(internal, rootKey)

C3_Witness ==
    /\ Returned
    /\ \E k \in visited \ {rootKey} :
          \E i \in 1..Len(nodes[k].includes) :
             /\ ~nodes[k].includes[i].is_system
             /\ FindIncludeFile(nodes[k].includes[i].filename, k) = rootKey

\* C4: the internal and external lists hold no entry twice.
C4_NoDuplicates ==
    NoDuplicates(internal) /\ NoDuplicates(external)

C4_Witness ==
    /\ Returned
    /\ Len(internal) >= 1
    /\ Len(external) >= 1
    /\ \E k1, k2 \in visited :
          \E i \in 1..Len(nodes[k1].includes), j \in 1..Len(nodes[k2].includes) :
             /\ <<k1, i>> # <<k2, j>>
             /\ nodes[k1].includes[i].filename = nodes[k2].includes[j].filename
             /\ FindIncludeFile(nodes[k1].includes[i].filename, k1)
                    = FindIncludeFile(nodes[k2].includes[j].filename, k2)


\* the lines of content inside the block "#ifndef x ... #endif", the
\* #endif matched by nesting depth
RECURSIVE BlockScan(_, _, _, _, _)
BlockScan(content, x, i, depth, acc) ==
    IF i > Len(content) THEN acc
    ELSE LET l == content[i] IN
         IF depth = 0
         THEN BlockScan(content, x, i + 1, IF l = Ifndef(x) THEN 1 ELSE 0, acc)
         ELSE IF l.k \in {"ifndef", "ifdef"}
              THEN BlockScan(content, x, i + 1, depth + 1, acc \cup {l})
         ELSE IF l.k = "endif"
              THEN BlockScan(content, x, i + 1, depth - 1,
                             IF depth = 1 THEN acc ELSE acc \cup {l})
         ELSE BlockScan(content, x, i + 1, depth, acc \cup {l})

GuardBlockLines(content, x) == BlockScan(content, x, 1, 0, {})

GuardSymbols(content) == {l.n : l \in {y \in Range(content) : y.k = "ifndef"}}

\* C5: in one merge the block guarded by a symbol is emitted at most once:
\* the output holds at most one copy of each #define and body line of the
\* block, whichever files and paths the block is reached through.
C5_GuardBlockOnce ==
    mpc = "merged" =>
        \A f \in DOMAIN fsText : \A x \in GuardSymbols(fsText[f]) :
            \A l \in GuardBlockLines(fsText[f], x) :
                l.k \in {"define", "text"} => Count(merged, l) <= 1

IsMarker(l) ==
    \/ l.k \in {"comment", "origfiles", "begin", "end", "mainsrc", "inlined", "origsrc"}
    \/ l = Text("")
StripMarkers(text) == SelectSeq(text, LAMBDA l : ~IsMarker(l))

\* C7: for a root without include directives resolve_dependencies returns
\* empty lists and get_merged_content([], root) returns the root's text,
\* marker comments aside.
C7_NoIncludesMergeUnchanged ==
    ( /\ mpc = "merged"
      /\ rootKey # NoPath
      /\ rootArg.form = "rel"
      /\ ExtractIncludes(fsText[rootKey]) = <<>> )
    => /\ internal = <<>>
       /\ external = <<>>
       /\ StripMarkers(merged) = fsText[rootKey]

----------------------------------------------------------------------------
(* Properties of run_pipeline *)

Returns == ppc = "returned"
StageDone(stage) == Contains(stages_completed, stage)
StageIndex(stage) == CHOOSE i \in 1..Len(Stages) : Stages[i] = stage

\* the body lines of a text: its lines that are neither directives nor markers
BodyLines(text) == SelectSeq(text, LAMBDA l : l.k = "text" /\ l # Text(""))

RECURSIVE BodiesOf(_)
BodiesOf(files) ==
    IF files = <<>> THEN <<>>
    ELSE BodyLines(fsText[Normalize(Head(files))]) \o BodiesOf(Tail(files))

\* C6: in a run with a file path, when resolution returned a non-empty
\* internal list, the merged code holds the body of every internal file
\* once, in resolution order, and then the body of the root file.
C6_MergedHoldsInternalBodies ==
    ( /\ StageDone("CODE_MERGING")
      /\ file_path # NoArg
      /\ rootKey # NoPath
      /\ inline_dependencies
      /\ internal_files # <<>> )
    => BodyLines(merged_code)
          = BodiesOf(internal_files) \o BodyLines(fsText[Normalize(rootKey)])

\* the stage a PipelineError message names
FailureMessages ==
    { "Failed to resolve dependencies", "Failed to merge code",
      "Failed to annotate code", "Failed to verify code" }

StageOfMessage(msg) ==
    CASE msg = "Failed to resolve dependencies" -> "DEPENDENCY_RESOLUTION"
      [] msg = "Failed to merge code"           -> "CODE_MERGING"
      [] msg = "Failed to annotate code"        -> "ANNOTATION"
      [] OTHER                                  -> "VERIFICATION"

ServiceCalls(svc) == SelectSeq(calls, LAMBDA c : c.svc = svc)

C9_SuccessIffAllStages ==
    /\ success = (stages_completed = Stages)
    /\ (Returns /\ stages_completed = Stages) => verification_result \in Verdicts

C9_Witness ==
    /\ Returns
    /\ success
    /\ verification_result = "rejected"

----------------------------------------------------------------------------
(* Input validation *)

Started == ppc # "idle"

\* the input of the run is one that validation rejects
InvalidInput ==
    \/ IsBlank(source_code)
    \/ Len(source_code) > MaxFileSize
    \/ file_path # NoArg /\ ExtOf(file_path) \notin SupportedExtensions

InitMessages ==
    { "Source code is empty or None", "Source code exceeds maximum size",
      "Unsupported file extension" }

\* the first notification of the run made the observer raise
ObserverRaisedAtInit ==
    has_callback /\ errors = <<Unexpected>> /\ stages_completed = <<>>

ValidationTestCall ==
    \/ source_code = EmptySource /\ file_path = NoArg
    \/ /\ ~IsBlank(source_code) /\ Len(source_code) <= MaxFileSize
       /\ file_path = RelArg(<<"test.py">>)

----------------------------------------------------------------------------
(* The progress observer *)

\* the temp-file save, which runs between stage 4 and stage 5, failed
SaveTempFailed ==
    /\ errors = <<Unexpected>>
    /\ current_stage = "ANNOTATION"
    /\ StageDone("ANNOTATION")
    /\ temp_files = <<>>

\* C13: an observer that raises during a notification does not abort the
\* run: a returned run with an observer has a result that a run whose
\* observer does not raise has, namely success, a validation error, a
\* failure of a stage's work, or a failure of the temp-file save.
C13_ObserverFailureDoesNotAbort ==
    (Returns /\ has_callback) =>
        \/ success /\ errors = <<>>
        \/ Len(errors) = 1 /\ errors[1] \in InitMessages \cup FailureMessages
        \/ SaveTempFailed

\* PipelineProgress.total_stages
TotalStages == Len(Stages)

\* the notifications of a run in which every stage transition is notified
AllTransitions ==
    [i \in 1..(TotalStages + 1) |->
        [stage |-> (Stages \o <<"COMPLETE">>)[i], completed |-> i - 1]]

\* C14: in a run where every stage succeeds the observer receives one
\* notification per stage transition, in the order INIT, ...,
\* RESULT_FORMATTING, COMPLETE, each carrying the number of stages completed
\* at that moment (the percentage is that number over total_stages).
C14_NotifiedEveryTransition ==
    (Returns /\ success /\ has_callback) =>
        /\ notified = AllTransitions
        /\ \A i \in 1..Len(notified) :
              /\ notified[i].completed <= TotalStages
              /\ i > 1 => notified[i - 1].completed <= notified[i].completed

\* the stage the text of a recorded error names, "none" when it names none
TaggedStage(msg) ==
    IF msg \in InitMessages THEN "INIT"
    ELSE IF msg \in FailureMessages THEN StageOfMessage(msg)
    ELSE "none"

\* the stage that was executing at the return of a failed run: the first
\* stage that is not completed
FailedStage == Stages[Len(stages_completed) + 1]

\* C15: the error recorded by a failed run is tagged with the stage that
\* was executing when the failure occurred, whatever the cause of the
\* failure, unexpected exceptions included.
C15_ErrorTaggedWithStage ==
    (Returns /\ ~success) =>
        /\ Len(errors) >= 1
        /\ \A i \in 1..Len(errors) : TaggedStage(errors[i]) = FailedStage

----------------------------------------------------------------------------
(* Unreadable files, missing nodes, resolver failures *)

\* the resolver met an existing file whose text cannot be read
UnreadableReached ==
    \E k \in visited : \E i \in 1..Len(nodes[k].includes) :
        /\ ~nodes[k].includes[i].is_system
        /\ Contains(internal, FindIncludeFile(nodes[k].includes[i].filename, k))
        /\ Normalize(FindIncludeFile(nodes[k].includes[i].filename, k)) \in unreadable

\* C16: when resolution reaches a file that exists but cannot be read the
\* run is not stopped, resolution goes on with the remaining files, and the
\* warnings of the returned result hold a warning for that file.
C16_UnreadableFileWarned ==
    (Returns /\ rpc = "done" /\ UnreadableReached) =>
        /\ StageDone("DEPENDENCY_RESOLUTION")
        /\ internal_files = internal
        /\ warnings # <<>>

\* the nodes of the graph _merge_code builds
MergeGraphNodes == AddFile(EmptyNodes, file_path).nodes

\* the merge of the run was handed a path for which its graph has no node
MergeMissesNode ==
    /\ StageDone("DEPENDENCY_RESOLUTION")
    /\ file_path # NoArg /\ inline_dependencies
    /\ \E i \in 1..Len(internal_files) : internal_files[i] \notin DOMAIN MergeGraphNodes

\* C17: a merge handed an internal path for which the graph holds no node
\* makes the run fail at the merge stage: success FALSE, CODE_MERGING not
\* completed, an error recorded.
C17_MissingNodeFailsMerge ==
    (Returns /\ MergeMissesNode) =>
        /\ success = FALSE
        /\ ~StageDone("CODE_MERGING")
        /\ errors # <<>>

\* C20: resolve_dependencies never raises: a quoted include that resolves
\* to no file is recorded in external and the traversal goes on; a root
\* that does not exist or lies outside the project gives empty lists, and
\* a run given such a path completes DEPENDENCY_RESOLUTION.
C20_ResolveNeverRaises ==
    /\ rpc # "raised"
    /\ (rpc = "done" /\ rootKey # NoPath) =>
          \A k \in visited : \A i \in 1..Len(nodes[k].includes) :
             ( /\ ~nodes[k].includes[i].is_system
               /\ FindIncludeFile(nodes[k].includes[i].filename, k) = NoPath )
             => Contains(external, nodes[k].includes[i].filename)
    /\ (rpc = "done" /\ rootKey = NoPath) => internal = <<>> /\ external = <<>>
    /\ (Returns /\ rpc # "idle" /\ file_path.form \in {"outside", "cwd"})
          => StageDone("DEPENDENCY_RESOLUTION")

----------------------------------------------------------------------------
(* classify_dependencies *)

\* most names in the includes argument of classify_dependencies
MaxClassifyIncludes == 2

\* project files that carry the name of a system header
ShadowFiles == { <<"stdio.h">>, <<"include", "stdlib.h">>, <<"src", "string.h">> }

\* a name longer than the file system accepts
LongName == [i \in 1..MaxPathLen |-> "deep"] \o <<"x.h">>

\* the names handed to classify_dependencies
ClassifyNames ==
    { <<"stdio.h">>, <<"stdlib.h">>, <<"string.h">>, <<"utils.h">>, <<"b.h">>,
      <<"missing.h">>, <<"/usr", "include", "x.h">>, LongName }

RECURSIVE SeqsUpTo(_, _)
SeqsUpTo(S, n) ==
    IF n = 0 THEN {<<>>}
    ELSE LET shorter == SeqsUpTo(S, n - 1) IN
         shorter \cup {Append(q, x) : q \in shorter, x \in S}

ClassifyInit ==
    /\ \E shadow \in SUBSET ShadowFiles :
          fsText = [f \in AllFiles \cup shadow |-> PlainBody(f)]
    /\ unreadable = {}
    /\ GraphInit
    /\ PipelineIdle
    /\ other_run = IdleRun
    /\ merged_again = <<>>
    /\ add_result = NoAdd /\ ext = NoExtract /\ cleanup = NoCleanup
    /\ \E incs \in SeqsUpTo(ClassifyNames, MaxClassifyIncludes) :
          cls = [NoClassify EXCEPT !.includes = incs]

\* classify_dependencies(includes, project_root) is called and returns
Classify ==
    /\ ~cls.done /\ ~cls.raised
    /\ \E r \in {ClassifyDependencies(cls.includes)} :
          cls' = [cls EXCEPT !.done = ~r.raised, !.raised = r.raised,
                             !.internal = r.internal, !.external = r.external]
    /\ UNCHANGED <<gvars, pvars, other_run, merged_again, add_result, ext, cleanup>>

ClassifyNext == Classify

ClassifySpec == ClassifyInit /\ [][ClassifyNext]_vars

\* a file of that name exists where classify_dependencies looks
FoundLocally(inc) ==
    \/ PathExists(inc)
    \/ PathExists(<<"include">> \o inc)
    \/ PathExists(<<"src">> \o inc)

\* C19: classify_dependencies puts every name of the system-header table
\* into external, whether or not a file of that name exists under the
\* project root, its include directory or its src directory.
C19_SystemHeadersExternal ==
    cls.done =>
        \A i \in 1..Len(cls.includes) :
            cls.includes[i] \in SystemHeaders =>
                /\ Contains(cls.external, cls.includes[i])
                /\ ~Contains(cls.internal, cls.includes[i])

C19_Witness ==
    /\ cls.done
    /\ \E i \in 1..Len(cls.includes) :
          /\ cls.includes[i] \in SystemHeaders
          /\ FoundLocally(cls.includes[i])
          /\ Contains(cls.external, cls.includes[i])
    /\ cls.internal # <<>>

----------------------------------------------------------------------------
(* Two run_pipeline calls, interleaved *)

\* The locals of the running call: progress and result (pipeline.py 130-131),
\* the arguments, and the graph built for the call (pipeline.py 194).
CurrentRun ==
    [ ppc |-> ppc, source_code |-> source_code, file_path |-> file_path,
      inline_dependencies |-> inline_dependencies, has_callback |-> has_callback,
      current_stage |-> current_stage, stages_completed |-> stages_completed,
      errors |-> errors, notified |-> notified, success |-> success,
      merged_code |-> merged_code, annotated_code |-> annotated_code,
      verification_result |-> verification_result, temp_files |-> temp_files,
      internal_files |-> internal_files, calls |-> calls, warnings |-> warnings,
      nodes |-> nodes, rootArg |-> rootArg, rootKey |-> rootKey,
      internal |-> internal, external |-> external, visited |-> visited,
      stack |-> stack, rpc |-> rpc ]

\* a call whose progress object is shared with the other call
ResumeSharedProgress(r) ==
    [r EXCEPT !.errors = errors, !.stages_completed = stages_completed]

\* the locals a suspended call finds when it runs again: its own
Resume(r) == r

\* the positions of run_pipeline between two stages
Boundaries ==
    { "idle", "DEPENDENCY_RESOLUTION", "CODE_MERGING", "ANNOTATION", "SAVE_TEMP",
      "VERIFICATION", "RESULT_FORMATTING", "returned" }

\* the scheduler suspends the running call at a stage boundary and lets
\* the other call run; the file system is the one thing both calls see
Switch ==
    /\ ppc \in Boundaries
    /\ other_run # CurrentRun
    /\ \E r \in {Resume(other_run)} :
        /\ ppc' = r.ppc
        /\ source_code' = r.source_code
        /\ file_path' = r.file_path
        /\ inline_dependencies' = r.inline_dependencies
        /\ has_callback' = r.has_callback
        /\ current_stage' = r.current_stage
        /\ stages_completed' = r.stages_completed
        /\ errors' = r.errors
        /\ notified' = r.notified
        /\ success' = r.success
        /\ merged_code' = r.merged_code
        /\ annotated_code' = r.annotated_code
        /\ verification_result' = r.verification_result
        /\ temp_files' = r.temp_files
        /\ internal_files' = r.internal_files
        /\ calls' = r.calls
        /\ warnings' = r.warnings
        /\ nodes' = r.nodes
        /\ rootArg' = r.rootArg
        /\ rootKey' = r.rootKey
        /\ internal' = r.internal
        /\ external' = r.external
        /\ visited' = r.visited
        /\ stack' = r.stack
        /\ rpc' = r.rpc
    /\ other_run' = CurrentRun
    /\ UNCHANGED <<fsText, unreadable, merged, mpc, cls, merged_again, add_result, ext, cleanup>>

\* the calls of the two interleaved runs
ConcurrentFilePaths == { NoArg, RelArg(MainC), RelArg(SrcB) }

ConcurrentNext ==
    \/ \E fp \in ConcurrentFilePaths, cb \in BOOLEAN :
          StageInit(SourceOf(fp), fp, TRUE, cb)
    \/ StageResolveGraph
    \/ TraverseStep
    \/ StageResolveEnd
    \/ StageResolveFallback
    \/ StageMerge
    \/ StageAnnotate
    \/ SaveTemp
    \/ StageVerify
    \/ StageFormat
    \/ Switch

ConcurrentSpec == PipelineInit /\ [][ConcurrentNext]_vars

DoneIn(r, stage) == Contains(r.stages_completed, stage)

\* r is the state of a call that ran alone: every field is what the call's
\* own arguments, its own graph and the outcomes of its own service calls
\* give
RunAlone(r) ==
    /\ r.success = (r.stages_completed = Stages)
    /\ r.stages_completed = SubSeq(Stages, 1, Len(r.stages_completed))
    /\ Len(r.errors) <= 1
    /\ r.success => r.errors = <<>>
    /\ (r.ppc = "returned" /\ ~r.success) => Len(r.errors) = 1
    /\ r.notified =
          IF r.has_callback
          THEN [i \in 1..Len(r.notified) |-> [stage |-> Stages[i], completed |-> i - 1]]
          ELSE <<>>
    /\ DOMAIN r.nodes = r.visited
    /\ r.rpc # "idle" => r.rootArg = r.file_path
    /\ DoneIn(r, "DEPENDENCY_RESOLUTION") =>
          r.internal_files =
             IF r.file_path # NoArg /\ r.inline_dependencies
             THEN r.internal
             ELSE ClassifyDependencies(FindIncludeNames(r.source_code)).internal
    /\ DoneIn(r, "CODE_MERGING") =>
          r.merged_code = MergeCode(r.source_code, r.internal_files, r.file_path,
                                    r.inline_dependencies).text
    /\ ~DoneIn(r, "CODE_MERGING") => r.merged_code = NullText
    /\ DoneIn(r, "ANNOTATION") =>
          /\ r.annotated_code = Annotated(r.merged_code)
          /\ r.calls[1] = [svc |-> "annotate", arg |-> r.merged_code]
    /\ ~DoneIn(r, "ANNOTATION") => r.annotated_code = NullText
    /\ DoneIn(r, "VERIFICATION") =>
          /\ r.calls = << [svc |-> "annotate", arg |-> r.merged_code],
                          [svc |-> "verify", arg |-> r.annotated_code] >>
          /\ r.verification_result \in Verdicts
          /\ Len(r.temp_files) = 1
    /\ ~DoneIn(r, "VERIFICATION") => r.verification_result = "none"

\* C18: two runs interleaved at any stage boundary each have the result
\* they have when run alone: success, stages_completed, errors, merged and
\* annotated code of each follow from its own arguments and its own graph;
\* neither reads or writes the other's progress, result or graph.
C18_InterleavedRunsIndependent ==
    RunAlone(CurrentRun) /\ RunAlone(other_run)

\* both calls are between two of their stages, each with a graph of its own
C18_Witness ==
    /\ ppc = "VERIFICATION" /\ other_run.ppc = "CODE_MERGING"
    /\ file_path = RelArg(MainC) /\ other_run.file_path = RelArg(SrcB)
    /\ internal_files # <<>>
    /\ nodes # EmptyNodes /\ other_run.nodes # EmptyNodes
    /\ nodes # other_run.nodes
    /\ has_callback /\ other_run.has_callback

----------------------------------------------------------------------------
(* Repeated merges *)

----------------------------------------------------------------------------
(* Round trip through the merge stage *)

\* C22: for a root file without quoted includes, the include names
\* extracted from the merge stage's output are all classified external:
\* classify_dependencies returns an empty internal list for them.
C22_RoundTripNoInternal ==
    ( /\ StageDone("CODE_MERGING")
      /\ \A i \in DOMAIN source_code : source_code[i].k # "loc" )
    => ClassifyDependencies(FindIncludeNames(merged_code)).internal = <<>>

----------------------------------------------------------------------------
(* Sections of the merged text *)

\* included_guards when the loop of get_merged_content reaches files[i]
GuardsBefore(files, i) ==
    MergeFiles(nodes, SubSeq(files, 1, i - 1), 1, [guards |-> {}, out |-> <<>>]).guards

\* the lines of text between the begin marker of p and the next end marker of p
Section(text, p) ==
    LET a == CHOOSE x \in DOMAIN text : text[x] = BeginMarker(p)
        b == CHOOSE y \in (a + 1)..Len(text) :
                 /\ text[y] = EndMarker(p)
                 /\ \A z \in (a + 1)..(y - 1) : text[z] # EndMarker(p)
    IN SubSeq(text, a + 1, b - 1)

\* the lines of content outside the blocks guarded by a symbol of seen, a
\* block reaching to the #endif that matches its #ifndef; include
\* directives are kept only when keep_includes
RECURSIVE OutsideSeenBlocks(_, _, _, _, _)
OutsideSeenBlocks(content, i, depth, seen, keep_includes) ==
    IF i > Len(content) THEN <<>>
    ELSE LET l == content[i] IN
         IF depth = 0 THEN
             IF l.k = "ifndef" /\ l.n \in seen
                 THEN OutsideSeenBlocks(content, i + 1, 1, seen, keep_includes)
             ELSE (IF IsIncludeLine(l) /\ ~keep_includes THEN <<>> ELSE <<l>>)
                  \o OutsideSeenBlocks(content, i + 1, 0, seen, keep_includes)
         ELSE IF l.k \in {"ifndef", "ifdef"}
             THEN OutsideSeenBlocks(content, i + 1, depth + 1, seen, keep_includes)
         ELSE IF l.k = "endif"
             THEN OutsideSeenBlocks(content, i + 1, depth - 1, seen, keep_includes)
         ELSE OutsideSeenBlocks(content, i + 1, depth, seen, keep_includes)

\* C23: a conditional block nested in the block of an already seen guard
\* does not end the skip: of a file whose guard was registered earlier in
\* the merge, the section holds no line up to and including the #endif
\* matching the outer #ifndef, only the lines after it.
C23_NestedBlockKeepsSkip ==
    mpc = "merged" =>
        \A i \in 1..Len(internal) :
            ( /\ internal[i] \in DOMAIN nodes
              /\ GuardSymbols(nodes[internal[i]].content) \cap GuardsBefore(internal, i) # {} )
            => Section(merged, internal[i])
                   = OutsideSeenBlocks(nodes[internal[i]].content, 1, 0,
                                       GuardsBefore(internal, i), FALSE)

\* the include directives of the root file outside the blocks of the guards
\* the internal files registered
RootIncludesOutsideBlocks ==
    SelectSeq(OutsideSeenBlocks(nodes[rootKey].content, 1, 0,
                                GuardsBefore(internal, Len(internal) + 1), TRUE),
              IsIncludeLine)

\* C24: the section of a non-root file holds none of its #include lines,
\* and every #include line of the root file outside a suppressed guard
\* block is in the merge output as written.
C24_IncludesOnlyFromRoot ==
    (mpc = "merged" /\ rootKey # NoPath) =>
        /\ \A i \in 1..Len(internal) :
               internal[i] \in DOMAIN nodes =>
                   \A l \in Range(Section(merged, internal[i])) : ~IsIncludeLine(l)
        /\ \A l \in Range(RootIncludesOutsideBlocks) : l \in Range(merged)

\* lines stands in text between a marker of begins and the end marker of p
Enclosed(text, begins, p, lines) ==
    \E a \in DOMAIN text, b \in DOMAIN text :
        /\ a < b
        /\ text[a] \in begins
        /\ text[b] = EndMarker(p)
        /\ SubSeq(text, a + 1, b - 1) = lines

\* C25: in the merge output the lines of each processed file, internal or
\* root, stand between a begin marker and an end marker that both carry
\* the file's relative path.
C25_SectionsBetweenMarkers ==
    mpc = "merged" =>
        /\ \A i \in 1..Len(internal) :
               (merged # <<>> /\ internal[i] \in DOMAIN nodes) =>
                   Enclosed(merged, {BeginMarker(internal[i])}, internal[i],
                            ProcessFileContent(nodes[internal[i]].content,
                                               GuardsBefore(internal, i), FALSE).lines)
        /\ (\E a \in DOMAIN merged : merged[a] = MainMarker(rootKey)) =>
               Enclosed(merged, {BeginMarker(rootKey), MainMarker(rootKey)}, rootKey,
                        ProcessFileContent(nodes[rootKey].content,
                                           GuardsBefore(internal, Len(internal) + 1),
                                           TRUE).lines)

\* C26: after resolve_dependencies(root_file), get_merged_content(internal,
\* root_file) with the same argument, absolute or relative to the project
\* root, ends with the root's section: the main-source marker followed by
\* the root's processed lines.
C26_RootSectionLast ==
    (mpc = "merged" /\ rootKey # NoPath /\ internal # <<>>) =>
        \E a \in DOMAIN merged :
            /\ merged[a].k = "mainsrc"
            /\ SubSeq(merged, a + 1, Len(merged))
                   = ProcessFileContent(nodes[rootKey].content,
                                        GuardsBefore(internal, Len(internal) + 1),
                                        TRUE).lines

----------------------------------------------------------------------------
(* Order of the stages and of the service calls *)

\* C27: at every point of a run stages_completed is a prefix of the six
\* stages in their order, without duplicates: no stage is recorded twice
\* and none before all earlier ones.
C27_CompletedIsPrefix ==
    /\ Len(stages_completed) <= Len(Stages)
    /\ stages_completed = SubSeq(Stages, 1, Len(stages_completed))
    /\ NoDuplicates(stages_completed)

\* a run that recorded all six stages, and so each of them once
C27_Witness == Returns /\ stages_completed = Stages /\ success

\* C28: in a run each service is called at most once, annotation before
\* verification; annotation only after INIT, DEPENDENCY_RESOLUTION and
\* CODE_MERGING completed and with the merged code; verification only after
\* ANNOTATION completed and with the text annotation returned; a service
\* that failed is not called again and no later service is called.
C28_ServicesCalledOnceInOrder ==
    LET a == ServiceCalls("annotate")
        v == ServiceCalls("verify")
    IN  /\ Len(a) <= 1 /\ Len(v) <= 1
        /\ calls = a \o v
        /\ Len(a) = 1 =>
               /\ StageDone("INIT") /\ StageDone("DEPENDENCY_RESOLUTION")
               /\ StageDone("CODE_MERGING")
               /\ merged_code # NullText
               /\ a[1].arg = merged_code
        /\ Len(v) = 1 =>
               /\ Len(a) = 1
               /\ StageDone("ANNOTATION")
               /\ annotated_code = Annotated(a[1].arg)
               /\ v[1].arg = annotated_code
        /\ Contains(errors, "Failed to annotate code") => Len(a) = 1 /\ Len(v) = 0
        /\ Contains(errors, "Failed to verify code") => Len(a) = 1 /\ Len(v) = 1

\* a run whose merged text differs from its source: it annotated the merged
\* text and then made its one verification call, which failed
C28_Witness ==
    /\ Returns
    /\ Contains(errors, "Failed to verify code")
    /\ merged_code # source_code
    /\ calls = << ServiceCall("annotate", merged_code),
                  ServiceCall("verify", Annotated(merged_code)) >>

----------------------------------------------------------------------------
(* Angle-bracket includes and the search order of quoted includes *)

\* the names of the angle-bracket includes of the node with key k
SystemIncludesOf(k) ==
    {l.p : l \in {x \in Range(nodes[k].content) : x.k = "sys"}}

NormalizedKeys(keys) == {Normalize(k) : k \in keys}

\* C29: the name of an angle-bracket include of a traversed file is in
\* external, and the include adds nothing to internal and is not traversed,
\* also when a file of that name exists in the including file's directory
\* or under the project root: such a file is in internal or visited only
\* when quoted includes lead to it.
C29_AngleIncludeIsExternal ==
    Returned =>
        \A k \in visited : \A n \in SystemIncludesOf(k) :
            /\ Contains(external, n)
            /\ LET f == IncludeTarget(Normalize(k), n) IN
               (f # NoPath /\ f \notin Reachable(Normalize(rootKey))) =>
                   /\ f \notin NormalizedKeys(Range(internal))
                   /\ f \notin NormalizedKeys(visited)
                   /\ f \notin NormalizedKeys(DOMAIN nodes)

\* main.c includes <utils.h>, utils.h exists next to it, and the resolver
\* returned with the name in external and the file untouched
C29_Witness ==
    /\ Returned
    /\ rootKey = MainC
    /\ <<"utils.h">> \in SystemIncludesOf(MainC)
    /\ PathExists(UtilsH)
    /\ Contains(external, <<"utils.h">>)
    /\ UtilsH \notin NormalizedKeys(Range(internal) \cup visited)

\* the names of the quoted includes of the node with key k
LocalIncludesOf(k) ==
    {l.p : l \in {x \in Range(nodes[k].content) : x.k = "loc"}}

\* the path p was recorded for a quoted include, and traversed if it can be read
RecordedAndTraversed(p) ==
    /\ p = rootKey \/ Contains(internal, p)
    /\ Readable(p) => p \in visited

\* C30: a quoted include is looked up in the including file's directory
\* first: when the name exists there, that file is recorded and traversed,
\* and a file of the same name under the project root is not used for it;
\* the file under the project root is recorded and traversed only when the
\* directory holds none.
C30_IncludingDirectoryFirst ==
    Returned =>
        \A k \in visited : \A n \in LocalIncludesOf(k) :
            LET d == Parent(k) \o n IN
            IF PathExists(d)
            THEN /\ RecordedAndTraversed(d)
                 /\ ( /\ PathExists(n)
                      /\ Normalize(n) # Normalize(d)
                      /\ Normalize(n) \notin Reachable(Normalize(rootKey)) )
                    => Normalize(n) \notin NormalizedKeys(Range(internal) \cup visited)
            ELSE PathExists(n) => RecordedAndTraversed(n)

\* src/b.h includes "utils.h" while both src/utils.h and utils.h exist:
\* src/utils.h was recorded and traversed, utils.h was not
C30_Witness ==
    /\ Returned
    /\ SrcUtilsH \in DOMAIN fsText /\ UtilsH \in DOMAIN fsText
    /\ SrcB \in visited
    /\ <<"utils.h">> \in LocalIncludesOf(SrcB)
    /\ Contains(internal, SrcUtilsH) /\ SrcUtilsH \in visited
    /\ UtilsH \notin NormalizedKeys(Range(internal) \cup visited)

----------------------------------------------------------------------------
(* A graph used for several calls while the files on disk change *)

\* the texts a file of the changing project may hold
ChangingTexts(f) ==
    IF f = MainC
    THEN { PlainBody(MainC), <<Loc(<<"utils.h">>)>> \o PlainBody(MainC),
           <<Sys(<<"stdio.h">>)>> \o PlainBody(MainC) }
    ELSE { PlainBody(f), <<Loc(<<"main.c">>)>> \o PlainBody(f) }

ChangingFiles == {MainC, UtilsH}
CallArgs == {RelArg(MainC), AbsArg(MainC), RelArg(UtilsH), OutsideArg}

GraphCallsInit ==
    /\ \E t1 \in ChangingTexts(MainC), t2 \in ChangingTexts(UtilsH) :
          fsText = (MainC :> t1) @@ (UtilsH :> t2)
    /\ unreadable = {}
    /\ GraphInit
    /\ PipelineIdle
    /\ ApartIdle

\* the file f is rewritten on disk with another text
WriteFile(f, text) ==
    /\ text # fsText[f]
    /\ fsText' = [fsText EXCEPT ![f] = text]
    /\ UNCHANGED <<unreadable, nodes, rootArg, rootKey, internal, external,
                   visited, stack, rpc, merged, mpc>>
    /\ UNCHANGED <<pvars, avars>>

\* graph.add_file(filepath) called by the user of the graph
AddFileCall(arg) ==
    /\ rpc \in {"idle", "done"}
    /\ \E r \in {AddFile(nodes, arg)} :
          /\ nodes' = r.nodes
          /\ add_result' =
                [arg |-> arg, key |-> r.key,
                 content |-> IF r.key \in {NoPath, RaisePath} THEN <<>>
                             ELSE r.nodes[r.key].content,
                 disk |-> IF r.key \in {NoPath, RaisePath} THEN <<>>
                          ELSE fsText[Normalize(r.key)]]
    /\ UNCHANGED <<fsText, unreadable, rootArg, rootKey, internal, external,
                   visited, stack, rpc, merged, mpc>>
    /\ UNCHANGED <<pvars, other_run, cls, merged_again, ext, cleanup>>

\* resolve_dependencies(root_file) called again on the graph, up to the
\* call traverse(root_node): internal, external and visited are new locals
ResolveAgain(arg) ==
    /\ rpc = "done"
    /\ rootArg' = arg
    /\ \E r \in {AddFile(nodes, arg)} :
       /\ nodes' = r.nodes
       /\ rootKey' = IF r.key = RaisePath THEN NoPath ELSE r.key
       /\ internal' = <<>>
       /\ external' = <<>>
       /\ IF r.key = RaisePath
          THEN rpc' = "raised" /\ visited' = {} /\ stack' = <<>>
          ELSE IF r.key = NoPath
          THEN rpc' = "done" /\ visited' = {} /\ stack' = <<>>
          ELSE /\ rpc' = "traversing"
               /\ visited' = {r.key}
               /\ stack' = << [key |-> r.key, idx |-> 1] >>
    /\ UNCHANGED <<fsText, unreadable, merged, mpc>>
    /\ UNCHANGED <<pvars, avars>>

GraphCallsNext ==
    \/ \E f \in ChangingFiles : \E text \in ChangingTexts(f) : WriteFile(f, text)
    \/ \E arg \in CallArgs : AddFileCall(arg)
    \/ \E arg \in CallArgs : ResolveStart(arg)
    \/ \E arg \in CallArgs : ResolveAgain(arg)
    \/ TraverseSystem
    \/ TraverseLocalFound
    \/ TraverseReturn
    \/ ResolveReturn

GraphCallsSpec == GraphCallsInit /\ [][GraphCallsNext]_vars

\* C31: over any sequence of add_file and resolve_dependencies calls on one
\* graph, each node is stored under its own relative path, so no two nodes
\* share one, and a node once added stays in the graph with the content
\* and includes it was added with, whatever happens to the file on disk:
\* add_file for a path already in the graph returns the existing node.
C31_NodesAddedOnce ==
    /\ [](\A k \in DOMAIN nodes : nodes[k].filepath = k)
    /\ [][\A k \in DOMAIN nodes : k \in DOMAIN nodes' /\ nodes'[k] = nodes[k]]_vars
    /\ [](add_result.key \notin {NoPath, RaisePath} =>
            add_result.content = nodes[add_result.key].content)

\* add_file was called for main.c by its absolute path when the graph held
\* main.c and the file on disk had changed: the node returned has the old text
C31_Witness ==
    /\ add_result.arg = AbsArg(MainC)
    /\ add_result.key = MainC
    /\ add_result.content # add_result.disk
    /\ nodes[MainC].includes = ExtractIncludes(add_result.content)
    /\ UtilsH \in DOMAIN nodes

----------------------------------------------------------------------------
(* classify_dependencies as a partition of its input *)

\* the names of includes that satisfy keep, in input order
NamesWhere(includes, keep(_)) == SelectSeq(includes, keep)

\* C32: classify_dependencies returns for every input, without an error,
\* the names that are outside the system-header table and exist under the
\* project root, its include or its src directory as internal and all
\* other names as external, each list in input order.
C32_ClassifyPartitionsInput ==
    /\ ~cls.raised
    /\ cls.done =>
          /\ cls.internal = NamesWhere(cls.includes,
                                LAMBDA n : n \notin SystemHeaders /\ FoundLocally(n))
          /\ cls.external = NamesWhere(cls.includes,
                                LAMBDA n : ~(n \notin SystemHeaders /\ FoundLocally(n)))

----------------------------------------------------------------------------
(* DependencyGraph._extract_includes on the characters of a text *)

\* most lines of a text handed to _extract_includes
MaxExtractLines == 3

\* A line is a sequence of tokens: "ws" is a run of blanks or tabs, "q" a
\* double quote, "<" and ">" the angle brackets, every other token a run of
\* characters without blanks, quotes and angle brackets.
IsSpace(tok) == tok = "ws"

\* line.strip()
RECURSIVE StripLeft(_)
StripLeft(line) ==
    IF line # <<>> /\ IsSpace(Head(line)) THEN StripLeft(Tail(line)) ELSE line

RECURSIVE StripRight(_)
StripRight(line) ==
    IF line # <<>> /\ IsSpace(line[Len(line)])
    THEN StripRight(SubSeq(line, 1, Len(line) - 1)) ELSE line

Strip(line) == StripRight(StripLeft(line))

\* the longest run of tokens from position i that are neither ">" nor "q"
RECURSIVE NameRun(_, _)
NameRun(line, i) ==
    IF i > Len(line) \/ line[i] \in {">", "q"} THEN <<>>
    ELSE <<line[i]>> \o NameRun(line, i + 1)

NoMatch == [ok |-> FALSE, bracket_type |-> "", filename |-> <<>>]

\* a match that requires #include at the first column of the line as written
MatchIncludeAtLineStart(line) ==
    IF line = <<>> \/ Head(line) # "#include" THEN NoMatch
    ELSE LET rest == StripLeft(Tail(line)) IN
         IF rest = <<>> \/ Head(rest) \notin {"<", "q"} THEN NoMatch
         ELSE LET name == NameRun(rest, 2) IN
              IF name = <<>> \/ Len(name) + 2 > Len(rest) THEN NoMatch
              ELSE [ok |-> TRUE, bracket_type |-> Head(rest), filename |-> name]

\* re.match(r'\s*#include\s*([<"])([^>"]+)[">]', line.strip())
MatchInclude(line) ==
    LET stripped == StripLeft(Strip(line)) IN
    IF stripped = <<>> \/ Head(stripped) # "#include" THEN NoMatch
    ELSE LET rest == StripLeft(Tail(stripped)) IN
         IF rest = <<>> \/ Head(rest) \notin {"<", "q"} THEN NoMatch
         ELSE LET name == NameRun(rest, 2) IN
              IF name = <<>> \/ Len(name) + 2 > Len(rest) THEN NoMatch
              ELSE [ok |-> TRUE, bracket_type |-> Head(rest), filename |-> name]

\* the loop "for i, line in enumerate(lines)" of _extract_includes
RECURSIVE ExtractRecords(_, _)
ExtractRecords(lines, i) ==
    IF i > Len(lines) THEN <<>>
    ELSE (IF MatchInclude(lines[i]).ok
          THEN << [filename |-> MatchInclude(lines[i]).filename,
                   is_system |-> (MatchInclude(lines[i]).bracket_type = "<"),
                   line_number |-> i] >>
          ELSE <<>>) \o ExtractRecords(lines, i + 1)

\* an include directive as written: blanks, #include, blanks, the name
\* between angle brackets or between quotes
Directive(lead, gap, system, name) ==
    lead \o <<"#include">> \o gap
         \o (IF system THEN <<"<", name, ">">> ELSE <<"q", name, "q">>)

Blanks == {<<>>, <<"ws">>}
HeaderNames == {"a.h", "b.h"}

Directives ==
    {Directive(lead, gap, system, name) :
        lead \in Blanks, gap \in Blanks, system \in BOOLEAN, name \in HeaderNames}

\* the lines a text handed to _extract_includes may hold
ExtractLines ==
    { Directive(<<>>, <<"ws">>, TRUE, "a.h"),        \* #include <a.h>
      Directive(<<"ws">>, <<"ws">>, FALSE, "b.h"),   \*   #include "b.h"
      Directive(<<>>, <<>>, TRUE, "b.h"),            \* #include<b.h>
      <<"#if", "ws", "0">>,
      <<"#endif">>,
      <<"int", "ws", "x;">>,
      <<"//", "ws", "#include", "ws", "q", "b.h", "q">>,
      <<"#include", "ws", "<", "a.h", "q">>,         \* #include <a.h"
      <<"#include", "ws", "MACRO">> }

ExtractInit ==
    /\ fsText = [f \in AllFiles |-> PlainBody(f)]
    /\ unreadable = {}
    /\ GraphInit
    /\ PipelineIdle
    /\ other_run = IdleRun /\ cls = NoClassify /\ merged_again = <<>>
    /\ add_result = NoAdd /\ cleanup = NoCleanup
    /\ \E text \in SeqsUpTo(ExtractLines, MaxExtractLines) :
          ext = [NoExtract EXCEPT !.text = text]

\* _extract_includes(content) is called and returns
Extract ==
    /\ ~ext.done
    /\ ext' = [ext EXCEPT !.done = TRUE, !.records = ExtractRecords(ext.text, 1)]
    /\ UNCHANGED <<gvars, pvars, other_run, cls, merged_again, add_result, cleanup>>

ExtractNext == Extract

ExtractSpec == ExtractInit /\ [][ExtractNext]_vars

\* the record the extractor owes for the directive d on line i
RecordOf(d, i) ==
    CHOOSE r \in [filename : {<<n>> : n \in HeaderNames}, is_system : BOOLEAN,
                   line_number : {i}] :
        \E lead \in Blanks, gap \in Blanks :
            d = Directive(lead, gap, r.is_system, r.filename[1])

\* C33: _extract_includes returns, in file order, one record for every
\* include directive of the text, in the <name> and in the "name" form,
\* with or without blanks before #include, inside or outside an #if
\* block: the record carries the name, the 1-based line number, and
\* is_system = TRUE exactly for the angle-bracket form.
C33_OneRecordPerDirective ==
    ext.done =>
        /\ \A i \in DOMAIN ext.text :
               ext.text[i] \in Directives =>
                   Count(ext.records, RecordOf(ext.text[i], i)) = 1
                   /\ \A j \in DOMAIN ext.records :
                          ext.records[j].line_number = i =>
                              ext.records[j] = RecordOf(ext.text[i], i)
        /\ \A j, k \in DOMAIN ext.records :
               j < k => ext.records[j].line_number < ext.records[k].line_number

\* a quoted include with leading blanks inside an #if 0 block, after an
\* angle-bracket include: both were extracted
C33_Witness ==
    /\ ext.done
    /\ ext.text = << Directive(<<>>, <<"ws">>, TRUE, "a.h"),
                     <<"#if", "ws", "0">>,
                     Directive(<<"ws">>, <<"ws">>, FALSE, "b.h") >>
    /\ ext.records = << [filename |-> <<"a.h">>, is_system |-> TRUE, line_number |-> 1],
                        [filename |-> <<"b.h">>, is_system |-> FALSE, line_number |-> 3] >>

----------------------------------------------------------------------------
(* Nodes of the internal files *)

\* C34: when resolve_dependencies has returned, every path of the internal
\* list has a node in the graph, and a following get_merged_content on the
\* graph emits a section for every internal path.
C34_InternalPathsHaveNodes ==
    Returned =>
        \A i \in 1..Len(internal) :
            /\ internal[i] \in DOMAIN nodes
            /\ mpc = "merged" =>
                   \E a \in DOMAIN merged : merged[a] = BeginMarker(internal[i])

----------------------------------------------------------------------------
(* The outputs and the stage of a returned result *)

\* C35: when run_pipeline returns, merged_code is set iff CODE_MERGING is
\* in stages_completed, annotated_code iff ANNOTATION is, and
\* verification_result iff VERIFICATION is: a failed run keeps the outputs
\* of the stages it completed.
C35_OutputsMatchCompletedStages ==
    Returns =>
        /\ merged_code # NullText <=> StageDone("CODE_MERGING")
        /\ annotated_code # NullText <=> StageDone("ANNOTATION")
        /\ verification_result # "none" <=> StageDone("VERIFICATION")

\* a run that failed in verification and kept its merged and annotated code
C35_Witness ==
    /\ Returns /\ ~success
    /\ Contains(errors, "Failed to verify code")
    /\ merged_code # NullText /\ merged_code # source_code
    /\ annotated_code = Annotated(merged_code)
    /\ verification_result = "none"

\* the first stage of the linear order that is not in stages_completed
FirstNotCompleted ==
    Stages[CHOOSE i \in 1..Len(Stages) :
              /\ ~StageDone(Stages[i])
              /\ \A j \in 1..(i - 1) : StageDone(Stages[j])]

\* C36: when run_pipeline returns, progress.current_stage is COMPLETE if
\* success is true and otherwise the first stage of the linear order that
\* is not in stages_completed, the stage at which the run stopped.
C36_CurrentStageIsStoppingStage ==
    Returns =>
        IF success THEN current_stage = "COMPLETE"
        ELSE \E i \in 1..Len(Stages) : ~StageDone(Stages[i])
             /\ current_stage = FirstNotCompleted

----------------------------------------------------------------------------
(* A pipeline run without a file path: classification and concatenation *)

\* most include directives of the source text of a run without a file path
MaxFallbackIncludes == 2

\* the include directives of the source text: a header under the project
\* root, a header that exists under src only, a system header
FallbackIncludes == { Loc(<<"utils.h">>), Loc(<<"b.h">>), Sys(<<"stdio.h">>) }

FallbackInit ==
    /\ \E incs \in SeqsUpTo(FallbackIncludes, MaxFallbackIncludes) :
          fsText = (MainC :> (incs \o PlainBody(MainC)))
                   @@ (UtilsH :> PlainBody(UtilsH)) @@ (SrcB :> PlainBody(SrcB))
    /\ unreadable = {}
    /\ GraphInit
    /\ PipelineIdle
    /\ ApartIdle

\* run_pipeline(source_code) up to the end of stage 3
FallbackNext ==
    \/ \E inline \in BOOLEAN, cb \in BOOLEAN :
          \E src \in Sources(NoArg) : StageInit(src, NoArg, inline, cb)
    \/ StageResolveFallback
    \/ StageMerge

FallbackSpec == FallbackInit /\ [][FallbackNext]_vars

\* the file classify_dependencies found for the name inc
ClassifiedFile(inc) ==
    IF PathExists(inc) THEN Normalize(inc)
    ELSE IF PathExists(<<"include">> \o inc) THEN Normalize(<<"include">> \o inc)
    ELSE Normalize(<<"src">> \o inc)

\* C37: in a run without a file path that inlines dependencies, every name
\* the resolution stage classified internal has its file's content in the
\* merged code exactly once, and the merged code ends with the original
\* source text.
C37_FallbackInlinesEachInternal ==
    (StageDone("CODE_MERGING") /\ file_path = NoArg /\ inline_dependencies) =>
        /\ \A i \in DOMAIN internal_files :
               /\ Count(merged_code, InlinedMarker(internal_files[i])) = 1
               /\ \A l \in Range(BodyLines(fsText[ClassifiedFile(internal_files[i])])) :
                      Count(merged_code, l) = 1
        /\ Len(merged_code) >= Len(source_code)
        /\ SubSeq(merged_code, Len(merged_code) - Len(source_code) + 1, Len(merged_code))
               = source_code

----------------------------------------------------------------------------
(* run_pipeline_with_progress: a run followed by cleanup_temp_files *)

\* a cleanup that removes temporary files of successful runs only
RemovedAfterSuccess(preserve, files, failed) ==
    IF preserve \/ ~success THEN {} ELSE files \ failed

\* cleanup_temp_files: the files os.remove deleted; failed are the files
\* for which os.remove raised
Removed(preserve, files, failed) ==
    IF preserve THEN {} ELSE files \ failed

\* VerificationPipeline(project_root, progress_callback) with the setting
\* config.verification.preserve_temp_files
ProgressInit ==
    /\ PipelineFsInit /\ GraphInit /\ PipelineIdle
    /\ other_run = IdleRun /\ cls = NoClassify /\ merged_again = <<>>
    /\ add_result = NoAdd /\ ext = NoExtract
    /\ \E b \in BOOLEAN : cleanup = [NoCleanup EXCEPT !.preserve = b]

\* pipeline.cleanup_temp_files(result), after run_pipeline returned
Cleanup ==
    /\ ppc = "returned"
    /\ ~cleanup.done
    /\ \E failed \in SUBSET Range(temp_files) :
          /\ cleanup.preserve => failed = {}
          /\ cleanup' = [cleanup EXCEPT
                            !.done = TRUE,
                            !.removed = Removed(cleanup.preserve, Range(temp_files), failed),
                            !.warned = failed]
    /\ UNCHANGED <<gvars, pvars, other_run, cls, merged_again, add_result, ext>>

ProgressNext == PipelineNext \/ Cleanup

ProgressSpec == ProgressInit /\ [][ProgressNext]_vars

\* the temporary files of the run that are on disk
TempFilesOnDisk == Range(temp_files) \ cleanup.removed

----------------------------------------------------------------------------
(* The order of the internal list *)

RECURSIVE Discover(_, _, _)
\* depth-first discovery from include idx of the file key on: the paths in
\* the order they are first found, each with the file and the directive
\* through which it was found
Discover(key, idx, acc) ==
    IF idx > Len(nodes[key].includes) THEN acc
    ELSE LET inc == nodes[key].includes[idx]
             ip  == IF inc.is_system THEN NoPath
                    ELSE FindIncludeFile(inc.filename, key)
         IN IF ip \in {NoPath, RaisePath} THEN Discover(key, idx + 1, acc)
            ELSE LET found == IF \E i \in 1..Len(acc.order) : acc.order[i].path = ip
                              THEN acc.order
                              ELSE Append(acc.order, [path |-> ip, from |-> key, idx |-> idx])
                     k     == AddFile(nodes, RelArg(ip)).key
                     below == IF k \in {NoPath, RaisePath} \/ k \in acc.seen
                              THEN [order |-> found, seen |-> acc.seen]
                              ELSE Discover(k, 1, [order |-> found,
                                                   seen |-> acc.seen \cup {k}])
                 IN Discover(key, idx + 1, below)

\* the discoveries from the root, without the root's own path
DiscoveryOrder ==
    LET all == Discover(rootKey, 1, [order |-> <<>>, seen |-> {rootKey}]).order
    IN SelectSeq(all, LAMBDA d : d.path # rootKey)

\* the paths of the file sections of a merged text, in the order of the text
SectionPaths(text) ==
    LET begins == SelectSeq(text, LAMBDA l : l.k = "begin")
    IN [i \in 1..Len(begins) |-> begins[i].p]

\* C39: the internal list of a returned resolve_dependencies is the
\* depth-first first-discovery order from the root: a file first found
\* through a directive of F stands after F (F not the root) and before
\* every file first found through a later directive of F; the merge emits
\* the sections of the files that have a node in this order.
C39_DepthFirstDiscoveryOrder ==
    Returned =>
        LET ref == DiscoveryOrder IN
        /\ internal = [i \in 1..Len(ref) |-> ref[i].path]
        /\ \A i, j \in 1..Len(ref) :
               (ref[i].from = ref[j].from /\ ref[i].idx < ref[j].idx) => i < j
        /\ \A i \in 1..Len(ref) :
               ref[i].from # rootKey => \E j \in 1..(i - 1) : ref[j].path = ref[i].from
        /\ mpc = "merged" =>
               SectionPaths(merged) = SelectSeq(internal, LAMBDA q : q \in DOMAIN nodes)

\* a merged resolution in which a file found through the first directive
\* of the root brought in a file of its own ahead of the file of the root's
\* second directive
C39_Witness ==
    /\ Returned /\ mpc = "merged"
    /\ Len(internal) = 3 /\ Len(SectionPaths(merged)) = 3
    /\ LET ref == DiscoveryOrder IN
       /\ Len(ref) = 3
       /\ ref[1].from = rootKey /\ ref[1].idx = 1
       /\ ref[2].from = ref[1].path
       /\ ref[3].from = rootKey /\ ref[3].idx = 2

====
